---------------------------- MODULE Spec2Model ----------------------------
(***************************************************************************)
(* A model of jwst_reffiles/bad_pixel_mask/bad_pixel_mask.py.              *)
(*                                                                         *)
(* Each function of the module that a property is about is modelled as a   *)
(* small program: its arguments are drawn in an initial predicate, its     *)
(* statements are the actions, and the shared variable pc holds the        *)
(* position in the function body.  One specification per function:         *)
(*   SpecCombine   combine_individual_maps                                 *)
(*   SpecDefault   get_max_dead_norm_signal_default                        *)
(*   SpecAdjacent  get_adjacent_pixels                                     *)
(*   SpecOpen      find_open_and_low_qe_pixels                             *)
(*   SpecZero      dead_pixels_zero_signal                                 *)
(*   SpecDead      dead_pixels_sigma_rate, dead_pixels_absolute_rate       *)
(*   SpecRef       reference_pixel_map                                     *)
(*   SpecRead      read_files, extract_10th_group                          *)
(*   SpecFind      find_bad_pix                                            *)
(*   SpecRegistry  combine_individual_maps and dqflags.pixel               *)
(*                                                                         *)
(* Conventions.  An image is a function from <<y, x>> (0-based, as numpy   *)
(* indexes it) to a pixel value.  combine_individual_maps works            *)
(* element by element, so its maps are flattened to 1..NPix.  Signal       *)
(* values and fractions are kept in hundredths (0.05 is 5).                *)
(***************************************************************************)
EXTENDS Integers, Sequences, FiniteSets, TLC

VARIABLES
    pc,                 \* position in the running function
    bad_maps,           \* combine_individual_maps: the dict name -> map
    bad_maps_keys,      \* ... and the iteration order of its keys
    do_not_use_flags,   \* combine_individual_maps: the do-not-use list
    do_not_use_map,     \* combine_individual_maps: working map (line 343)
    use_map,            \* combine_individual_maps: working map (line 344)
    final_map,          \* combine_individual_maps: the returned map
    idx,                \* index of the running for loop
    instrument,         \* get_max_dead_norm_signal_default: argument
    detector,           \* get_max_dead_norm_signal_default: argument
    normalization_method, \* get_max_dead_norm_signal_default: argument
    default_value,      \* get_max_dead_norm_signal_default: returned value
    x_val, y_val,       \* get_adjacent_pixels: the central pixel
    x_dim, y_dim,       \* get_adjacent_pixels: the array size
    adj_x, adj_y,       \* get_adjacent_pixels: the returned coordinates
    rate_image,         \* find_open_and_low_qe_pixels: argument
    xdim, ydim,         \* find_open_and_low_qe_pixels: rate_image.shape
    low_sig,            \* find_open_and_low_qe_pixels: zip(low_sig_x, low_sig_y)
    low_qe_map,         \* find_open_and_low_qe_pixels: LOW_QE map
    open_pix_map,       \* find_open_and_low_qe_pixels: OPEN map
    adj_pix_map,        \* find_open_and_low_qe_pixels: ADJ_OPEN map
    groups,             \* dead_pixels_zero_signal: argument, a stack of planes
    dead_zero_signal_fraction, \* dead_pixels_zero_signal: argument (hundredths)
    dead_pix_map,       \* dead_pixels_zero_signal: the returned map
    mean_rate,          \* dead_pixels_sigma_rate: argument (hundredths)
    stdev_rate,         \* dead_pixels_sigma_rate: argument (hundredths)
    sigma,              \* dead_pixels_sigma_rate: argument
    max_dead_rate,      \* dead_pixels_absolute_rate: argument max_dead_signal
    dimensions,         \* reference_pixel_map: argument, <<yd, xd>>
    instrument_name,    \* reference_pixel_map: argument
    ref_map,            \* reference_pixel_map: the returned map
    filenames,          \* read_files: argument
    dead_search_type,   \* read_files: argument
    hdu_lists,          \* read_files: what fits.open has returned so far
    exposure,           \* read_files: the data taken from the current file
    integrations,       \* read_files: the stack being built
    comparison_instrument, \* read_files: metadata of the first file
    comparison_detector,   \* read_files: metadata of the first file
    comparison_aperture,   \* read_files: metadata of the first file
    error,              \* the exception that ended the running function
    input_files,        \* find_bad_pix: argument
    dead_search,        \* find_bad_pix: argument
    low_qe_and_open_search, \* find_bad_pix: argument
    max_dead_norm_signal,   \* find_bad_pix: argument (hundredths, or None)
    do_not_use,         \* find_bad_pix: argument
    output_file,        \* find_bad_pix: argument, a path or None
    input_exposures,    \* find_bad_pix: the stack read_files returned
    mean_img,           \* find_bad_pix: mean image, science pixels
    stdev_img,          \* find_bad_pix: stdev image, science pixels
    smoothed_image,     \* find_bad_pix: the normalization image
    normalized,         \* find_bad_pix: mean_img / smoothed_image
    norm_mean,          \* find_bad_pix: image_stats(normalized)
    norm_dev,           \* find_bad_pix: image_stats(normalized)
    dead_map,           \* find_bad_pix: DEAD map, full frame
    lowqe_map,          \* find_bad_pix: LOW_QE map, full frame
    open_map,           \* find_bad_pix: OPEN map, full frame
    adjacent_to_open_map,   \* find_bad_pix: ADJ_OPEN map, full frame
    miri_bad_col_map,   \* find_bad_pix: UNRELIABLE_SLOPE map
    reference_pix,      \* find_bad_pix: REFERENCE_PIXEL map
    files_written,      \* find_bad_pix: the paths of the files written
    pixel,              \* jwst.datamodels.dqflags.pixel, the shared dict
    calls               \* calls of combine_individual_maps made so far

openVars == <<rate_image, xdim, ydim, low_sig, low_qe_map, open_pix_map, adj_pix_map>>

zeroVars == <<groups, dead_zero_signal_fraction, dead_pix_map>>

defaultVars == <<instrument, detector, normalization_method, default_value>>

adjacentVars == <<x_val, y_val, x_dim, y_dim, adj_x, adj_y>>

combineVars == <<bad_maps, bad_maps_keys, do_not_use_flags, do_not_use_map,
                 use_map, final_map>>

deadVars == <<mean_rate, stdev_rate, sigma, max_dead_rate>>

refVars == <<dimensions, instrument_name, ref_map>>

\* The variables of the functions modelled after dead_pixels_zero_signal.
readVars == <<filenames, dead_search_type, hdu_lists, exposure, integrations,
              comparison_instrument, comparison_detector, comparison_aperture,
              error>>

\* find_bad_pix also uses dead_search_type, normalization_method, instrument,
\* detector, xdim, ydim, final_map and error.
findVars == <<input_files, dead_search, low_qe_and_open_search,
              max_dead_norm_signal, do_not_use, output_file, input_exposures,
              mean_img, stdev_img, smoothed_image, normalized, norm_mean,
              norm_dev, dead_map, lowqe_map, open_map, adjacent_to_open_map,
              miri_bad_col_map, reference_pix, files_written>>

\* The module-level state that outlives a call of combine_individual_maps.
registryVars == <<pixel, calls>>

extraVars == <<deadVars, refVars, readVars, findVars, registryVars>>

vars == <<pc, idx, combineVars, defaultVars, adjacentVars, openVars, zeroVars,
          extraVars>>

\* The value of a variable that the running function does not own.
Unused == <<>>

CombineUnused ==
    /\ bad_maps = Unused /\ bad_maps_keys = Unused /\ do_not_use_flags = Unused
    /\ do_not_use_map = Unused /\ use_map = Unused /\ final_map = Unused

DefaultUnused ==
    /\ instrument = Unused /\ detector = Unused
    /\ normalization_method = Unused /\ default_value = Unused

AdjacentUnused ==
    /\ x_val = Unused /\ y_val = Unused /\ x_dim = Unused /\ y_dim = Unused
    /\ adj_x = Unused /\ adj_y = Unused

OpenUnused ==
    /\ rate_image = Unused /\ xdim = Unused /\ ydim = Unused /\ low_sig = Unused
    /\ low_qe_map = Unused /\ open_pix_map = Unused /\ adj_pix_map = Unused

ZeroUnused ==
    /\ groups = Unused /\ dead_zero_signal_fraction = Unused
    /\ dead_pix_map = Unused

DeadUnused ==
    /\ mean_rate = Unused /\ stdev_rate = Unused /\ sigma = Unused
    /\ max_dead_rate = Unused

RefUnused ==
    /\ dimensions = Unused /\ instrument_name = Unused /\ ref_map = Unused

ReadUnused ==
    /\ filenames = Unused /\ dead_search_type = Unused /\ hdu_lists = Unused
    /\ exposure = Unused /\ integrations = Unused
    /\ comparison_instrument = Unused /\ comparison_detector = Unused
    /\ comparison_aperture = Unused /\ error = Unused

FindUnused ==
    /\ input_files = Unused /\ dead_search = Unused
    /\ low_qe_and_open_search = Unused /\ max_dead_norm_signal = Unused
    /\ do_not_use = Unused /\ output_file = Unused /\ input_exposures = Unused
    /\ mean_img = Unused /\ stdev_img = Unused /\ smoothed_image = Unused
    /\ normalized = Unused /\ norm_mean = Unused /\ norm_dev = Unused
    /\ dead_map = Unused /\ lowqe_map = Unused /\ open_map = Unused
    /\ adjacent_to_open_map = Unused /\ miri_bad_col_map = Unused
    /\ reference_pix = Unused /\ files_written = Unused

RegistryUnused == pixel = Unused /\ calls = Unused

ExtraUnused ==
    DeadUnused /\ RefUnused /\ ReadUnused /\ FindUnused /\ RegistryUnused

---------------------------------------------------------------------------
(* Generic helpers *)

Range(s) == {s[i] : i \in 1..Len(s)}

\* Sequences over S of length at most n.
SeqUpTo(S, n) == UNION {[1..k -> S] : k \in 0..n}

\* Sequences over S without repetition, of length at most n.
DistinctSeqUpTo(S, n) ==
    {s \in SeqUpTo(S, n) : \A i, j \in 1..Len(s) : i # j => s[i] # s[j]}

\* Every reordering of the sequence s.
Reorderings(s) ==
    {[i \in 1..Len(s) |-> s[f[i]]] : f \in Permutations(1..Len(s))}

RECURSIVE BitOr(_, _)
\* Bitwise OR of two naturals.
BitOr(a, b) ==
    IF a = 0 THEN b
    ELSE IF b = 0 THEN a
    ELSE (IF a % 2 = 1 \/ b % 2 = 1 THEN 1 ELSE 0)
         + 2 * BitOr(a \div 2, b \div 2)

RECURSIVE BitOrAll(_)
\* Bitwise OR of a finite set of naturals.
BitOrAll(S) ==
    IF S = {} THEN 0
    ELSE LET v == CHOOSE u \in S : TRUE IN BitOr(v, BitOrAll(S \ {v}))

\* Is the (power-of-two) bit set in the natural v?
HasBit(v, bit) == (v \div bit) % 2 = 1

\* The float NaN, a pixel value that sigma_clip(..., masked=False) and
\* np.nanmean leave in an image; it stands outside the range of the signal
\* values used, and every comparison with it is false.
NaN == -1000

\* Python's <, >=, > and == on floats.
Lt(a, b) == a # NaN /\ b # NaN /\ a < b
Ge(a, b) == a # NaN /\ b # NaN /\ a >= b
Gt(a, b) == a # NaN /\ b # NaN /\ a > b
Eq(a, b) == a # NaN /\ b # NaN /\ a = b

Min(a, b) == IF a < b THEN a ELSE b
Max(a, b) == IF a > b THEN a ELSE b

\* The indices a Python slice [start:stop] selects on an axis of length n:
\* a negative bound counts from the end, and both are clipped to 0..n.
SliceIndices(start, stop, n) ==
    LET lo == IF start < 0 THEN Max(start + n, 0) ELSE Min(start, n)
        hi == IF stop < 0 THEN Max(stop + n, 0) ELSE Min(stop, n)
    IN lo..(hi - 1)

\* The <<y, x>> coordinates of an array of shape (yd, xd).
Coords(yd, xd) == (0..(yd - 1)) \X (0..(xd - 1))

\* The coordinates of an array of shape (yd, xd) in row-major order, the
\* order in which np.where reports them.
RowMajor(yd, xd) == [k \in 1..(yd * xd) |-> <<(k - 1) \div xd, (k - 1) % xd>>]

---------------------------------------------------------------------------
(* combine_individual_maps (lines 316-367) *)

\* Number of pixels of each map handed to combine_individual_maps.
NPix == 1

\* Longest do-not-use list tried.
MaxDnuLen == 2

Pixels == 1..NPix

\* dq_defs as combine_individual_maps sees it: jwst.datamodels.dqflags.pixel
\* (the names used here, with the bit values of the jwst package) after the
\* assignment of line 338, which puts REFERENCE_PIXEL at 128.
dq_defs ==
    [DO_NOT_USE       |-> 1,
     REFERENCE_PIXEL  |-> 128,
     DEAD             |-> 1024,
     HOT              |-> 2048,
     LOW_QE           |-> 8192,
     UNRELIABLE_SLOPE |-> 16777216,
     OPEN             |-> 67108864,
     ADJ_OPEN         |-> 134217728]

\* Names tried as keys of bad_maps and as do-not-use entries: recognized
\* ones and one ("BOGUS") that dq_defs does not hold.
MapNames == {"DEAD", "LOW_QE", "BOGUS"}
FlagNames == {"DEAD", "LOW_QE", "BOGUS"}

\* np.zeros(bad_maps['DEAD'].shape)
ZeroMap == [p \in Pixels |-> 0]

\* A plausible slip: the flagged pixels are assigned, not added to.
AddFlaggedAssign(map, ind_map, value) ==
    [p \in DOMAIN map |-> IF ind_map[p] # 0 THEN value ELSE map[p]]

\* flagged = ind_map != 0 ; map[flagged] += value   (lines 349-351, 360-362)
AddFlagged(map, ind_map, value) ==
    [p \in DOMAIN map |-> IF ind_map[p] # 0 THEN map[p] + value ELSE map[p]]

\* Body of the first loop for a recognized pix_type (lines 347-351).
DoNotUseBody(bm, dnu_map, pix_type) ==
    IF pix_type \in DOMAIN bm
    THEN AddFlagged(dnu_map, bm[pix_type], dq_defs[pix_type])
    ELSE dnu_map

\* do_not_use_map[do_not_use_map != 0] += dq_defs['DO_NOT_USE']  (line 354)
AddDoNotUse(dnu_map) ==
    [p \in DOMAIN dnu_map |->
        IF dnu_map[p] # 0 THEN dnu_map[p] + dq_defs["DO_NOT_USE"]
        ELSE dnu_map[p]]

\* Body of the second loop for a recognized pix_type (lines 358-362).
UseBody(bm, flags, u_map, pix_type) ==
    IF pix_type \notin Range(flags)
    THEN AddFlagged(u_map, bm[pix_type], dq_defs[pix_type])
    ELSE u_map

\* final_map = do_not_use_map + use_map  (line 366)
SumMaps(a, b) == [p \in DOMAIN a |-> a[p] + b[p]]

RECURSIVE DoNotUseLoop(_, _, _, _)
\* The first loop (lines 345-353) from its i-th iteration on.
DoNotUseLoop(bm, flags, i, dnu_map) ==
    IF i > Len(flags) THEN [raised |-> FALSE, map |-> dnu_map]
    ELSE IF flags[i] \in DOMAIN dq_defs
         THEN DoNotUseLoop(bm, flags, i + 1, DoNotUseBody(bm, dnu_map, flags[i]))
         ELSE [raised |-> TRUE, map |-> dnu_map]

RECURSIVE UseLoop(_, _, _, _, _)
\* The second loop (lines 356-364) from its i-th iteration on.
UseLoop(bm, keys, flags, i, u_map) ==
    IF i > Len(keys) THEN [raised |-> FALSE, map |-> u_map]
    ELSE IF keys[i] \in DOMAIN dq_defs
         THEN UseLoop(bm, keys, flags, i + 1, UseBody(bm, flags, u_map, keys[i]))
         ELSE [raised |-> TRUE, map |-> u_map]

\* The whole call: "raised" for the ValueError, or the returned map.
combine_individual_maps(bm, keys, flags) ==
    LET first == DoNotUseLoop(bm, flags, 1, ZeroMap) IN
    IF first.raised THEN [status |-> "raised", final_map |-> Unused]
    ELSE LET second == UseLoop(bm, keys, flags, 1, ZeroMap) IN
         IF second.raised THEN [status |-> "raised", final_map |-> Unused]
         ELSE [status |-> "returned",
               final_map |-> SumMaps(AddDoNotUse(first.map), second.map)]

otherThanCombine == <<defaultVars, adjacentVars, openVars, zeroVars, extraVars>>

\* The arguments: a dict holding 'DEAD' (line 343 reads it), in any key
\* order, each map 0/1, and a list of names in which a name may repeat.
InitCombine ==
    /\ pc = "combine_343"
    /\ bad_maps_keys \in {s \in DistinctSeqUpTo(MapNames, Cardinality(MapNames)) :
                             "DEAD" \in Range(s)}
    /\ bad_maps \in [Range(bad_maps_keys) -> [Pixels -> {0, 1}]]
    /\ do_not_use_flags \in SeqUpTo(FlagNames, MaxDnuLen)
    /\ do_not_use_map = Unused
    /\ use_map = Unused
    /\ final_map = Unused
    /\ idx = 0
    /\ DefaultUnused /\ AdjacentUnused /\ OpenUnused /\ ZeroUnused
    /\ ExtraUnused

\* Lines 343-344: allocate the two working maps.
CombineAllocate ==
    /\ pc = "combine_343"
    /\ do_not_use_map' = ZeroMap
    /\ use_map' = ZeroMap
    /\ idx' = 1
    /\ pc' = "combine_345"
    /\ UNCHANGED <<bad_maps, bad_maps_keys, do_not_use_flags, final_map>>
    /\ UNCHANGED otherThanCombine

\* Lines 345-351: one iteration of the first loop, recognized name.
CombineDoNotUseIter ==
    /\ pc = "combine_345"
    /\ idx <= Len(do_not_use_flags)
    /\ do_not_use_flags[idx] \in DOMAIN dq_defs
    /\ do_not_use_map' = DoNotUseBody(bad_maps, do_not_use_map, do_not_use_flags[idx])
    /\ idx' = idx + 1
    /\ UNCHANGED <<pc, bad_maps, bad_maps_keys, do_not_use_flags, use_map, final_map>>
    /\ UNCHANGED otherThanCombine

\* Lines 352-353: the first loop meets an unrecognized name.
CombineDoNotUseRaise ==
    /\ pc = "combine_345"
    /\ idx <= Len(do_not_use_flags)
    /\ do_not_use_flags[idx] \notin DOMAIN dq_defs
    /\ pc' = "combine_raised"
    /\ UNCHANGED <<combineVars, idx>>
    /\ UNCHANGED otherThanCombine

\* Line 354: the first loop is over; add the DO_NOT_USE value.
CombineAddDoNotUse ==
    /\ pc = "combine_345"
    /\ idx > Len(do_not_use_flags)
    /\ do_not_use_map' = AddDoNotUse(do_not_use_map)
    /\ idx' = 1
    /\ pc' = "combine_356"
    /\ UNCHANGED <<bad_maps, bad_maps_keys, do_not_use_flags, use_map, final_map>>
    /\ UNCHANGED otherThanCombine

\* Lines 356-362: one iteration of the second loop, recognized name.
CombineUseIter ==
    /\ pc = "combine_356"
    /\ idx <= Len(bad_maps_keys)
    /\ bad_maps_keys[idx] \in DOMAIN dq_defs
    /\ use_map' = UseBody(bad_maps, do_not_use_flags, use_map, bad_maps_keys[idx])
    /\ idx' = idx + 1
    /\ UNCHANGED <<pc, bad_maps, bad_maps_keys, do_not_use_flags, do_not_use_map,
                   final_map>>
    /\ UNCHANGED otherThanCombine

\* Lines 363-364: the second loop meets an unrecognized name.
CombineUseRaise ==
    /\ pc = "combine_356"
    /\ idx <= Len(bad_maps_keys)
    /\ bad_maps_keys[idx] \notin DOMAIN dq_defs
    /\ pc' = "combine_raised"
    /\ UNCHANGED <<combineVars, idx>>
    /\ UNCHANGED otherThanCombine

\* Lines 366-367: sum the two working maps and return.
CombineReturn ==
    /\ pc = "combine_356"
    /\ idx > Len(bad_maps_keys)
    /\ final_map' = SumMaps(do_not_use_map, use_map)
    /\ pc' = "combine_returned"
    /\ UNCHANGED <<bad_maps, bad_maps_keys, do_not_use_flags, do_not_use_map,
                   use_map, idx>>
    /\ UNCHANGED otherThanCombine

NextCombine ==
    \/ CombineAllocate
    \/ CombineDoNotUseIter
    \/ CombineDoNotUseRaise
    \/ CombineAddDoNotUse
    \/ CombineUseIter
    \/ CombineUseRaise
    \/ CombineReturn

SpecCombine == InitCombine /\ [][NextCombine]_vars

---------------------------------------------------------------------------
(* Properties of combine_individual_maps *)

\* The categories of bad_maps whose map is nonzero at pixel p.
Fired(p) == {c \in DOMAIN bad_maps : bad_maps[c][p] # 0}

\* The bits the final map is to carry at pixel p: the registry bit of every
\* category that fired there, and DO_NOT_USE when a listed category fired.
ExpectedBits(p) ==
    BitOrAll({dq_defs[c] : c \in Fired(p)}
             \cup (IF Fired(p) \cap Range(do_not_use_flags) # {}
                   THEN {dq_defs["DO_NOT_USE"]} ELSE {}))

\* C1: in the returned map every pixel is the bitwise OR of the bit values
\* of exactly the categories that are nonzero there, OR-ed with DO_NOT_USE
\* when a do-not-use-listed category is nonzero there, also when a name is
\* listed more than once.
C1_FinalMapIsOr ==
    pc = "combine_returned" => \A p \in Pixels : final_map[p] = ExpectedBits(p)

\* C2: in the returned map the DO_NOT_USE bit of a pixel is set if and only
\* if some category named in the do-not-use list has its own bit set at
\* that pixel.
C2_DoNotUseIffListedBit ==
    pc = "combine_returned" =>
        \A p \in Pixels :
            HasBit(final_map[p], dq_defs["DO_NOT_USE"])
            <=> \E c \in Range(do_not_use_flags) : HasBit(final_map[p], dq_defs[c])

\* C3: the outcome of combine_individual_maps (the returned map, or the
\* ValueError) is the same for every iteration order of the dict and every
\* ordering of the do-not-use list.
C3_OrderInvariant ==
    pc \in {"combine_returned", "combine_raised"} =>
        \A keys \in Reorderings(bad_maps_keys) :
            \A flags \in Reorderings(do_not_use_flags) :
                LET r == combine_individual_maps(bad_maps, keys, flags) IN
                IF pc = "combine_returned"
                THEN r.status = "returned" /\ r.final_map = final_map
                ELSE r.status = "raised"

\* A call that returned, with two different listed categories and a further
\* unlisted one all nonzero on one pixel.
C3_Witness ==
    /\ pc = "combine_returned"
    /\ Len(do_not_use_flags) >= 2
    /\ Len(bad_maps_keys) >= 2
    /\ \E p \in Pixels :
          /\ Cardinality(Fired(p) \cap Range(do_not_use_flags)) >= 1
          /\ Cardinality(Fired(p)) >= 2
          /\ final_map[p] # 0

\* C4: when combine_individual_maps raises for an unrecognized name, no
\* pixel of any category map has yet been added to a working map.
C4_RaiseBeforeAccumulate ==
    pc = "combine_raised" => do_not_use_map = ZeroMap /\ use_map = ZeroMap

---------------------------------------------------------------------------
(* get_max_dead_norm_signal_default (lines 733-770).  Signal values are in *)
(* hundredths: 25.0 is 2500 and 0.05 is 5.                                 *)

\* Line 762-763
detectors ==
    <<"NRCA1", "NRCA2", "NRCA3", "NRCA4", "NRCALONG",
      "NRCB1", "NRCB2", "NRCB3", "NRCB4", "NRCBLONG">>

\* Line 764-765
defaults ==
    <<2500, 2500, 3000, 3000, 4000,
      2500, 2500, 2500, 2500, 5000>>

\* Python's == between a list and a str: they are never equal.
ListEqualsStr(list, str) == FALSE

\* Python's indexing of a list by a bool: False is index 0, True is index 1
\* (the sequences here start at 1).
IndexByBool(list, b) == list[(IF b THEN 1 ELSE 0) + 1]

get_max_dead_norm_signal_default(instr, det, norm_method) ==
    IF instr = "NIRCAM" /\ norm_method = "none"
    THEN IndexByBool(defaults, ListEqualsStr(detectors, det))
    ELSE 5

Instruments == {"NIRCAM", "NIRISS", "NIRSPEC", "MIRI", "FGS"}

\* The detectors of the table, one NIRCam name the table lacks, and
\* detectors of other instruments.
DetectorNames == Range(detectors) \cup {"NRCA5", "NIS", "MIRIMAGE"}

\* normalization_method.lower() as find_bad_pix passes it (line 229)
NormalizationMethods == {"smoothed", "mean", "none"}

InitDefault ==
    /\ pc = "default_761"
    /\ instrument \in Instruments
    /\ detector \in DetectorNames
    /\ normalization_method \in NormalizationMethods
    /\ default_value = Unused
    /\ idx = 0
    /\ CombineUnused /\ AdjacentUnused /\ OpenUnused /\ ZeroUnused
    /\ ExtraUnused

\* Lines 761-770: the whole function.
DefaultCall ==
    /\ pc = "default_761"
    /\ default_value' =
          get_max_dead_norm_signal_default(instrument, detector, normalization_method)
    /\ pc' = "default_returned"
    /\ UNCHANGED <<instrument, detector, normalization_method, idx>>
    /\ UNCHANGED <<combineVars, adjacentVars, openVars, zeroVars, extraVars>>

NextDefault == DefaultCall

SpecDefault == InitDefault /\ [][NextDefault]_vars

\* The table as documented: detector -> default, in hundredths.
DocumentedDefault(det) ==
    CASE det \in {"NRCA1", "NRCA2", "NRCB1", "NRCB2", "NRCB3", "NRCB4"} -> 2500
      [] det \in {"NRCA3", "NRCA4"} -> 3000
      [] det = "NRCALONG" -> 4000
      [] det = "NRCBLONG" -> 5000

\* C5: for NIRCAM with normalization 'none' the default is the table entry
\* of the detector; in every case the table does not cover, an unknown
\* NIRCAM detector included, it is 0.05.
C5_DefaultFromTable ==
    pc = "default_returned" =>
        default_value =
            IF /\ instrument = "NIRCAM"
               /\ normalization_method = "none"
               /\ detector \in Range(detectors)
            THEN DocumentedDefault(detector)
            ELSE 5

---------------------------------------------------------------------------
(* get_adjacent_pixels (lines 649-705) *)

\* Largest array side tried for get_adjacent_pixels.
MaxAdjDim == 4

\* adj_x, adj_y when no branch assigned them (the return then fails).
Unbound == [adj_x |-> "unbound", adj_y |-> "unbound"]

get_adjacent_pixels(xv, yv, xd, yd) ==
    IF xv > 0 /\ xv < xd - 1 THEN
        IF yv > 0 /\ yv < yd - 1 THEN
            [adj_x |-> <<xv, xv + 1, xv, xv - 1>>,
             adj_y |-> <<yv + 1, yv, yv - 1, yv>>]
        ELSE IF yv = 0 THEN
            [adj_x |-> <<xv, xv + 1, xv - 1>>,
             adj_y |-> <<yv + 1, yv, yv>>]
        ELSE IF yv = yd - 1 THEN
            [adj_x |-> <<xv + 1, xv, xv - 1>>,
             adj_y |-> <<yv, yv - 1, yv>>]
        ELSE Unbound
    ELSE IF xv = 0 THEN
        IF yv > 0 /\ yv < yd - 1 THEN
            [adj_x |-> <<xv, xv + 1, xv>>,
             adj_y |-> <<yv + 1, yv, yv - 1>>]
        ELSE IF yv = 0 THEN
            [adj_x |-> <<xv, xv + 1>>,
             adj_y |-> <<yv + 1, yv>>]
        ELSE IF yv = yd - 1 THEN
            [adj_x |-> <<xv + 1, xv>>,
             adj_y |-> <<yv, yv - 1>>]
        ELSE Unbound
    ELSE IF xv = xd - 1 THEN
        IF yv > 0 /\ yv < yd - 1 THEN
            [adj_x |-> <<xv, xv, xv - 1>>,
             adj_y |-> <<yv + 1, yv - 1, yv>>]
        ELSE IF yv = 0 THEN
            [adj_x |-> <<xv, xv - 1>>,
             adj_y |-> <<yv + 1, yv>>]
        ELSE IF yv = yd - 1 THEN
            [adj_x |-> <<xv, xv - 1>>,
             adj_y |-> <<yv - 1, yv>>]
        ELSE Unbound
    ELSE Unbound

InitAdjacent ==
    /\ pc = "adjacent_675"
    /\ x_dim \in 1..MaxAdjDim
    /\ y_dim \in 1..MaxAdjDim
    /\ x_val \in 0..(x_dim - 1)
    /\ y_val \in 0..(y_dim - 1)
    /\ adj_x = Unused
    /\ adj_y = Unused
    /\ idx = 0
    /\ CombineUnused /\ DefaultUnused /\ OpenUnused /\ ZeroUnused
    /\ ExtraUnused

\* Lines 675-705: the whole function.
AdjacentCall ==
    /\ pc = "adjacent_675"
    /\ LET r == get_adjacent_pixels(x_val, y_val, x_dim, y_dim) IN
          /\ adj_x' = r.adj_x
          /\ adj_y' = r.adj_y
    /\ pc' = "adjacent_returned"
    /\ UNCHANGED <<x_val, y_val, x_dim, y_dim, idx>>
    /\ UNCHANGED <<combineVars, defaultVars, openVars, zeroVars, extraVars>>

NextAdjacent == AdjacentCall

SpecAdjacent == InitAdjacent /\ [][NextAdjacent]_vars

\* The 4-connected neighbours of (xv, yv) inside [0,xd) x [0,yd), as <<x, y>>.
Neighbours4(xv, yv, xd, yd) ==
    {c \in {<<xv, yv + 1>>, <<xv + 1, yv>>, <<xv, yv - 1>>, <<xv - 1, yv>>} :
        c[1] \in 0..(xd - 1) /\ c[2] \in 0..(yd - 1)}

\* C6: for every width >= 1, height >= 1 and in-range (x, y) the returned
\* coordinates are exactly the in-range 4-connected neighbours, each once
\* and none out of range.
C6_AdjacentExact ==
    pc = "adjacent_returned" =>
        /\ Len(adj_x) = Len(adj_y)
        /\ {<<adj_x[i], adj_y[i]>> : i \in 1..Len(adj_x)}
              = Neighbours4(x_val, y_val, x_dim, y_dim)
        /\ Len(adj_x) = Cardinality(Neighbours4(x_val, y_val, x_dim, y_dim))

---------------------------------------------------------------------------
(* find_open_and_low_qe_pixels (lines 592-646).  Signal values are in      *)
(* hundredths.                                                             *)

\* Largest side of the rate image tried.
MaxDim == 3

\* Most pixels of a rate image that differ from the flat background.
MaxSpecial == 2

\* The default thresholds of line 592: 0.05, 0.5 and 1.05.
max_dead_signal == 5
max_low_qe == 50
max_adj_open == 105

\* A normal pixel of a normalized flat field, above every threshold.
Background == max_adj_open + 5

\* Values of the pixels that stand out: NaN, below the dead threshold, on
\* it, inside the candidate range, on its upper end, and on max_adj_open.
SpecialValues == {NaN, 1, 5, 20, 50, 105}

\* The rate images of shape (yd, xd) with at most MaxSpecial special pixels.
RateImages(yd, xd) ==
    UNION {{[c \in Coords(yd, xd) |-> IF c \in S THEN f[c] ELSE Background] :
               f \in [S -> SpecialValues]} :
           S \in {T \in SUBSET Coords(yd, xd) : Cardinality(T) <= MaxSpecial}}

\* np.zeros((ydim, xdim)).astype(np.int)
ZeroImage(yd, xd) == [c \in Coords(yd, xd) |-> 0]

\* Line 634: np.where((rate_image >= max_dead_signal) & (rate_image < max_low_qe)),
\* as the <<x, y>> pairs that zip(low_sig_x, low_sig_y) yields.
LowSignalFrom(img, yd, xd, max_dead) ==
    LET hit(c) == Ge(img[c], max_dead) /\ Lt(img[c], max_low_qe)
        sel == SelectSeq(RowMajor(yd, xd), hit)
    IN [k \in 1..Len(sel) |-> <<sel[k][2], sel[k][1]>>]

\* Line 634 with the default max_dead_signal of line 592.
LowSignal(img, yd, xd) == LowSignalFrom(img, yd, xd, max_dead_signal)

\* Line 638: rate_image[adj_pix_y, adj_pix_x] raises IndexError when an
\* index is not below the axis length (no index here is negative).
IndexInRange(adj, yd, xd) ==
    \A i \in 1..Len(adj.adj_x) :
        adj.adj_x[i] \in 0..(xd - 1) /\ adj.adj_y[i] \in 0..(yd - 1)

\* Lines 638-640: all(rate_image[adj_pix_y, adj_pix_x] > max_adj_open)
AllAdjacentAbove(img, adj) ==
    \A i \in 1..Len(adj.adj_x) : Gt(img[<<adj.adj_y[i], adj.adj_x[i]>>], max_adj_open)

\* Lines 641-642: adj_pix_map[y-1:y+2, x-1:x+2] = 1 ; adj_pix_map[y, x] = 0
MarkAdjacent(adj_map, x, y, yd, xd) ==
    [c \in DOMAIN adj_map |->
        IF c = <<y, x>> THEN 0
        ELSE IF /\ c[1] \in SliceIndices(y - 1, y + 2, yd)
                /\ c[2] \in SliceIndices(x - 1, x + 2, xd)
             THEN 1 ELSE adj_map[c]]

\* map[y, x] = 1   (lines 643, 645)
SetPixel(map, x, y) == [map EXCEPT ![<<y, x>>] = 1]

otherThanOpen == <<combineVars, defaultVars, adjacentVars, zeroVars, extraVars>>

InitOpen ==
    /\ pc = "open_629"
    /\ ydim \in 1..MaxDim
    /\ xdim \in 1..MaxDim
    /\ rate_image \in RateImages(ydim, xdim)
    /\ low_sig = Unused
    /\ low_qe_map = Unused
    /\ open_pix_map = Unused
    /\ adj_pix_map = Unused
    /\ idx = 0
    /\ CombineUnused /\ DefaultUnused /\ AdjacentUnused /\ ZeroUnused
    /\ ExtraUnused

\* Lines 629-634: allocate the three maps and find the candidates.
OpenAllocate ==
    /\ pc = "open_629"
    /\ low_qe_map' = ZeroImage(ydim, xdim)
    /\ open_pix_map' = ZeroImage(ydim, xdim)
    /\ adj_pix_map' = ZeroImage(ydim, xdim)
    /\ low_sig' = LowSignal(rate_image, ydim, xdim)
    /\ idx' = 1
    /\ pc' = "open_636"
    /\ UNCHANGED <<rate_image, xdim, ydim>>
    /\ UNCHANGED otherThanOpen

\* Lines 636-638: a neighbour index is outside the image, IndexError.
OpenIterIndexError ==
    /\ pc = "open_636"
    /\ idx <= Len(low_sig)
    /\ ~IndexInRange(get_adjacent_pixels(low_sig[idx][1], low_sig[idx][2], xdim, ydim),
                     ydim, xdim)
    /\ pc' = "open_raised"
    /\ UNCHANGED <<openVars, idx>>
    /\ UNCHANGED otherThanOpen

\* Lines 636-643: one iteration, the candidate is OPEN.
OpenIterOpen ==
    /\ pc = "open_636"
    /\ idx <= Len(low_sig)
    /\ LET x == low_sig[idx][1]
           y == low_sig[idx][2]
           adj == get_adjacent_pixels(x, y, xdim, ydim)
       IN /\ IndexInRange(adj, ydim, xdim)
          /\ AllAdjacentAbove(rate_image, adj)
          /\ adj_pix_map' = MarkAdjacent(adj_pix_map, x, y, ydim, xdim)
          /\ open_pix_map' = SetPixel(open_pix_map, x, y)
    /\ idx' = idx + 1
    /\ UNCHANGED <<pc, rate_image, xdim, ydim, low_sig, low_qe_map>>
    /\ UNCHANGED otherThanOpen

\* Lines 636-640, 644-645: one iteration, the candidate is LOW_QE.
OpenIterLowQE ==
    /\ pc = "open_636"
    /\ idx <= Len(low_sig)
    /\ LET x == low_sig[idx][1]
           y == low_sig[idx][2]
           adj == get_adjacent_pixels(x, y, xdim, ydim)
       IN /\ IndexInRange(adj, ydim, xdim)
          /\ ~AllAdjacentAbove(rate_image, adj)
          /\ low_qe_map' = SetPixel(low_qe_map, x, y)
    /\ idx' = idx + 1
    /\ UNCHANGED <<pc, rate_image, xdim, ydim, low_sig, open_pix_map, adj_pix_map>>
    /\ UNCHANGED otherThanOpen

\* Line 646: the loop is over, return the three maps.
OpenReturn ==
    /\ pc = "open_636"
    /\ idx > Len(low_sig)
    /\ pc' = "open_returned"
    /\ UNCHANGED <<openVars, idx>>
    /\ UNCHANGED otherThanOpen

NextOpen ==
    \/ OpenAllocate
    \/ OpenIterIndexError
    \/ OpenIterOpen
    \/ OpenIterLowQE
    \/ OpenReturn

SpecOpen == InitOpen /\ [][NextOpen]_vars

---------------------------------------------------------------------------
(* Properties of find_open_and_low_qe_pixels *)

\* The 4-connected neighbours of the pixel c = <<y, x>> that exist, as <<y, x>>.
Existing4(c) ==
    {<<n[2], n[1]>> : n \in Neighbours4(c[2], c[1], xdim, ydim)}

\* The pixels of the 3x3 block centred on c = <<y, x>> that lie in the image.
Block3x3(c) ==
    {d \in Coords(ydim, xdim) : d[1] \in (c[1] - 1)..(c[1] + 1)
                                /\ d[2] \in (c[2] - 1)..(c[2] + 1)}

\* c is a candidate: max_dead_signal <= image[c] < max_low_qe.
Candidate(c) ==
    Ge(rate_image[c], max_dead_signal) /\ Lt(rate_image[c], max_low_qe)

\* Every existing 4-neighbour of c is strictly above max_adj_open.
NeighboursAbove(c) == \A n \in Existing4(c) : Gt(rate_image[n], max_adj_open)

\* C7: every pixel is classified from the input image: a candidate is in
\* OpenMap when all its existing 4-neighbours are above max_adj_open and
\* in LowQEMap otherwise (border candidates on the neighbours that exist),
\* a pixel outside the candidate range is in neither map; the call does
\* not fail on any image.
C7_Classification ==
    /\ pc # "open_raised"
    /\ pc = "open_returned" =>
          \A c \in Coords(ydim, xdim) :
              /\ open_pix_map[c] = (IF Candidate(c) /\ NeighboursAbove(c) THEN 1 ELSE 0)
              /\ low_qe_map[c] = (IF Candidate(c) /\ ~NeighboursAbove(c) THEN 1 ELSE 0)

\* C8: for every OPEN pixel p, on the border of the image too, every
\* in-range pixel of the 3x3 block centred on p other than p is set in
\* AdjOpenMap.
C8_BlockAroundOpen ==
    pc = "open_returned" =>
        \A p \in Coords(ydim, xdim) :
            open_pix_map[p] = 1 =>
                \A r \in Block3x3(p) \ {p} : adj_pix_map[r] = 1

\* C9: AdjOpenMap is the OR over all OPEN pixels q of the 3x3 block centred
\* on q with q removed, whatever the order in which candidates are visited.
C9_AdjOpenIsOrOfBlocks ==
    pc = "open_returned" =>
        \A r \in Coords(ydim, xdim) :
            adj_pix_map[r] = 1 <=>
                \E q \in Coords(ydim, xdim) :
                    open_pix_map[q] = 1 /\ q # r /\ r \in Block3x3(q)

---------------------------------------------------------------------------
(* dead_pixels_zero_signal (lines 538-563).  The fraction is in hundredths. *)

\* Most planes of a stack tried.
MaxPlanes == 10

\* The image of each plane: one row of two pixels.
ZeroCoords == Coords(1, 2)

\* Fractions tried: 0.5, 0.9, 0.91 and 1.0.
Fractions == {50, 90, 91, 100}

RECURSIVE SumAxis0(_, _, _)
\* np.sum(zero_signal, axis=0) at pixel c, over the planes from g on, where
\* zero_signal = (groups == 0.).astype(np.int)   (lines 559-560)
SumAxis0(stack, c, g) ==
    IF g > Len(stack) THEN 0
    ELSE (IF Eq(stack[g][c], 0) THEN 1 ELSE 0) + SumAxis0(stack, c, g + 1)

\* A plausible slip: the comparison of line 562 written with >.
dead_pixels_zero_signal_strict(stack, fraction) ==
    [c \in DOMAIN stack[1] |->
        IF SumAxis0(stack, c, 1) * 100 > fraction * Len(stack) THEN 1 ELSE 0]

\* Lines 558-563: total_zeros / num_groups >= dead_zero_signal_fraction,
\* the quotient compared exactly (both sides times 100 * num_groups).
dead_pixels_zero_signal(stack, fraction) ==
    [c \in DOMAIN stack[1] |->
        IF SumAxis0(stack, c, 1) * 100 >= fraction * Len(stack) THEN 1 ELSE 0]

\* The stacks tried: the first pixel is 0 or not in each plane freely, the
\* second pixel holds one value (zero, negative or NaN) in every plane.
Stacks ==
    UNION {{[g \in 1..n |-> [c \in ZeroCoords |-> IF c = <<0, 0>> THEN a[g] ELSE b]] :
               a \in [1..n -> {0, 7}], b \in {0, -7, NaN}} :
           n \in 1..MaxPlanes}

InitZero ==
    /\ pc = "zero_558"
    /\ groups \in Stacks
    /\ dead_zero_signal_fraction \in Fractions
    /\ dead_pix_map = Unused
    /\ idx = 0
    /\ CombineUnused /\ DefaultUnused /\ AdjacentUnused /\ OpenUnused
    /\ ExtraUnused

\* Lines 558-563: the whole function.
ZeroCall ==
    /\ pc = "zero_558"
    /\ dead_pix_map' = dead_pixels_zero_signal(groups, dead_zero_signal_fraction)
    /\ pc' = "zero_returned"
    /\ UNCHANGED <<groups, dead_zero_signal_fraction, idx>>
    /\ UNCHANGED <<combineVars, defaultVars, adjacentVars, openVars, extraVars>>

NextZero == ZeroCall

SpecZero == InitZero /\ [][NextZero]_vars

\* The planes of the stack whose value at pixel c is exactly zero.
ZeroPlanes(c) == {g \in 1..Len(groups) : groups[g][c] = 0}

---------------------------------------------------------------------------
(* dead_pixels_sigma_rate (lines 487-513) and dead_pixels_absolute_rate    *)
(* (lines 516-535), with the candidate selection of line 634.  Both work   *)
(* element by element, so the images are single rows.                      *)

\* Longest row tried.
MaxDeadDim == 3

\* Float subtraction and multiplication: NaN propagates.
Sub(a, b) == IF a = NaN \/ b = NaN THEN NaN ELSE a - b
Mul(a, b) == IF a = NaN \/ b = NaN THEN NaN ELSE a * b

\* Line 512 with <= for <.
dead_pixels_sigma_rate_le(img, mean, stdev, sig) ==
    [c \in DOMAIN img |->
        IF img[c] # NaN /\ Sub(mean, Mul(sig, stdev)) # NaN
           /\ img[c] <= Sub(mean, Mul(sig, stdev)) THEN 1 ELSE 0]

\* Line 512: (rate_image < (mean_rate - sigma * stdev_rate)).astype(np.int)
dead_pixels_sigma_rate(img, mean, stdev, sig) ==
    [c \in DOMAIN img |-> IF Lt(img[c], Sub(mean, Mul(sig, stdev))) THEN 1 ELSE 0]

\* Line 534: (rate_image < max_dead_signal).astype(np.int)
dead_pixels_absolute_rate(img, max_dead) ==
    [c \in DOMAIN img |-> IF Lt(img[c], max_dead) THEN 1 ELSE 0]

\* Pixel values: the specials of find_open_and_low_qe_pixels and a normal one.
DeadValues == SpecialValues \cup {Background}

\* The rows of 1..MaxDeadDim pixels.
DeadImages(xd) == [Coords(1, xd) -> DeadValues]

\* The image statistics: a mean of 1.0 or NaN, a deviation of 0, 0.1 or NaN.
MeanRates == {100, NaN}
StdevRates == {0, 10, NaN}

\* sigma: the default of dead_pixels_sigma_rate (5.) and that of find_bad_pix's
\* sigma_threshold (3).
Sigmas == {5, 3}

\* max_dead_signal: the default (0.05) and a larger one (0.5).
MaxDeadRates == {max_dead_signal, max_low_qe}

otherThanDead == <<combineVars, defaultVars, adjacentVars, refVars, readVars,
                   findVars, registryVars>>

InitDead ==
    /\ ydim = 1
    /\ xdim \in 1..MaxDeadDim
    /\ rate_image \in DeadImages(xdim)
    /\ low_sig = Unused
    /\ low_qe_map = Unused
    /\ open_pix_map = Unused
    /\ adj_pix_map = Unused
    /\ dead_pix_map = Unused
    /\ groups = Unused
    /\ dead_zero_signal_fraction = Unused
    /\ idx = 0
    /\ \/ /\ pc = "sigma_512"
          /\ mean_rate \in MeanRates
          /\ stdev_rate \in StdevRates
          /\ sigma \in Sigmas
          /\ max_dead_rate = Unused
       \/ /\ pc = "absolute_534"
          /\ max_dead_rate \in MaxDeadRates
          /\ mean_rate = Unused /\ stdev_rate = Unused /\ sigma = Unused
       \/ /\ pc = "open_629"
          /\ DeadUnused
    /\ CombineUnused /\ DefaultUnused /\ AdjacentUnused /\ RefUnused
    /\ ReadUnused /\ FindUnused /\ RegistryUnused

\* Lines 512-513.
DeadSigmaCall ==
    /\ pc = "sigma_512"
    /\ dead_pix_map' = dead_pixels_sigma_rate(rate_image, mean_rate, stdev_rate, sigma)
    /\ pc' = "sigma_returned"
    /\ UNCHANGED <<idx, openVars, deadVars, groups, dead_zero_signal_fraction>>
    /\ UNCHANGED otherThanDead

\* Lines 534-535.
DeadAbsoluteCall ==
    /\ pc = "absolute_534"
    /\ dead_pix_map' = dead_pixels_absolute_rate(rate_image, max_dead_rate)
    /\ pc' = "absolute_returned"
    /\ UNCHANGED <<idx, openVars, deadVars, groups, dead_zero_signal_fraction>>
    /\ UNCHANGED otherThanDead

NextDead ==
    \/ DeadSigmaCall
    \/ DeadAbsoluteCall
    \/ OpenAllocate

SpecDead == InitDead /\ [][NextDead]_vars

\* C11: dead_pixels_sigma_rate flags a pixel if and only if its value is
\* below mean - sigma * stdev, dead_pixels_absolute_rate if and only if it is
\* strictly below max_dead_signal (a pixel on the threshold is not flagged),
\* and a NaN pixel is flagged by neither and is no low-QE/open candidate;
\* neither detector has a failing outcome.
C11_DeadThresholds ==
    /\ pc = "sigma_returned" =>
          \A c \in DOMAIN rate_image :
              /\ dead_pix_map[c] \in {0, 1}
              /\ dead_pix_map[c] = 1 <=>
                    /\ rate_image[c] # NaN /\ mean_rate # NaN /\ stdev_rate # NaN
                    /\ rate_image[c] < mean_rate - sigma * stdev_rate
    /\ pc = "absolute_returned" =>
          \A c \in DOMAIN rate_image :
              /\ dead_pix_map[c] \in {0, 1}
              /\ dead_pix_map[c] = 1 <=>
                    (rate_image[c] # NaN /\ rate_image[c] < max_dead_rate)
    /\ pc = "open_636" =>
          \A k \in 1..Len(low_sig) :
              rate_image[<<low_sig[k][2], low_sig[k][1]>>] # NaN
    /\ pc \in {"sigma_512", "sigma_returned", "absolute_534", "absolute_returned",
               "open_629", "open_636"}

\* A row with a NaN pixel, a pixel on the threshold 1.0 - 5 * 0.1 and a pixel
\* below it: only the last is flagged.
C11_Witness ==
    /\ pc = "sigma_returned"
    /\ mean_rate = 100 /\ stdev_rate = 10 /\ sigma = 5
    /\ xdim = 3
    /\ rate_image[<<0, 0>>] = NaN /\ dead_pix_map[<<0, 0>>] = 0
    /\ rate_image[<<0, 1>>] = 50 /\ dead_pix_map[<<0, 1>>] = 0
    /\ rate_image[<<0, 2>>] = 20 /\ dead_pix_map[<<0, 2>>] = 1

---------------------------------------------------------------------------
(* reference_pixel_map (lines 969-996) *)

\* Largest side of the map tried.
MaxRefDim == 10

\* The width of the reference pixel border (lines 989-994, 851-864, 1130-1141).
RefPix == 4

\* The instrument names tried, and str.lower() on them.
RefInstrumentNames == {"MIRI", "miri", "NIRCAM", "FGS"}

Lower(name) ==
    CASE name = "MIRI" -> "miri"
      [] name = "miri" -> "miri"
      [] name = "NIRCAM" -> "nircam"
      [] name = "NIRISS" -> "niriss"
      [] name = "NIRSPEC" -> "nirspec"
      [] name = "FGS" -> "fgs"
      [] name = "Smoothed" -> "smoothed"
      [] OTHER -> name

\* map[:, cols] = 1 and map[rows, :] = 1
SetColumns(map, cols) == [c \in DOMAIN map |-> IF c[2] \in cols THEN 1 ELSE map[c]]
SetRows(map, rows) == [c \in DOMAIN map |-> IF c[1] \in rows THEN 1 ELSE map[c]]

\* Line 989 alone: only the left columns.
RefColumnsLeft(map, xd) == SetColumns(map, SliceIndices(0, RefPix, xd))

\* Lines 989-990: ref_map[:, 0:4] = 1 ; ref_map[:, xd-4:xd] = 1
RefColumns(map, xd) ==
    SetColumns(SetColumns(map, SliceIndices(0, RefPix, xd)),
               SliceIndices(xd - RefPix, xd, xd))

\* Lines 993-994: ref_map[0:4, :] = 1 ; ref_map[yd-4:yd, :] = 1
RefRows(map, yd) ==
    SetRows(SetRows(map, SliceIndices(0, RefPix, yd)),
            SliceIndices(yd - RefPix, yd, yd))

\* The whole function, for its callers.
reference_pixel_map(dims, name) ==
    LET cols == RefColumns(ZeroImage(dims[1], dims[2]), dims[2])
    IN IF Lower(name) # "miri" THEN RefRows(cols, dims[1]) ELSE cols

otherThanRef == <<combineVars, defaultVars, adjacentVars, openVars, zeroVars,
                  deadVars, readVars, findVars, registryVars>>

InitRef ==
    /\ pc = "ref_986"
    /\ dimensions \in (1..MaxRefDim) \X (1..MaxRefDim)
    /\ instrument_name \in RefInstrumentNames
    /\ ref_map = Unused
    /\ idx = 0
    /\ CombineUnused /\ DefaultUnused /\ AdjacentUnused /\ OpenUnused
    /\ ZeroUnused /\ DeadUnused /\ ReadUnused /\ FindUnused /\ RegistryUnused

\* Lines 986-987: yd, xd = dimensions ; ref_map = np.zeros(dimensions)
RefAllocate ==
    /\ pc = "ref_986"
    /\ ref_map' = ZeroImage(dimensions[1], dimensions[2])
    /\ pc' = "ref_989"
    /\ UNCHANGED <<idx, dimensions, instrument_name>>
    /\ UNCHANGED otherThanRef

\* Lines 989-990: the columns.
RefSetColumns ==
    /\ pc = "ref_989"
    /\ ref_map' = RefColumns(ref_map, dimensions[2])
    /\ pc' = "ref_992"
    /\ UNCHANGED <<idx, dimensions, instrument_name>>
    /\ UNCHANGED otherThanRef

\* Lines 992-996: not MIRI, the rows, and return.
RefSetRows ==
    /\ pc = "ref_992"
    /\ Lower(instrument_name) # "miri"
    /\ ref_map' = RefRows(ref_map, dimensions[1])
    /\ pc' = "ref_returned"
    /\ UNCHANGED <<idx, dimensions, instrument_name>>
    /\ UNCHANGED otherThanRef

\* Lines 992, 996: MIRI, return.
RefReturnMiri ==
    /\ pc = "ref_992"
    /\ Lower(instrument_name) = "miri"
    /\ pc' = "ref_returned"
    /\ UNCHANGED <<idx, refVars>>
    /\ UNCHANGED otherThanRef

NextRef ==
    \/ RefAllocate
    \/ RefSetColumns
    \/ RefSetRows
    \/ RefReturnMiri

SpecRef == InitRef /\ [][NextRef]_vars

\* Is the pixel c = <<y, x>> of a (yd, xd) frame in the outer four columns,
\* or, off MIRI, in the outer four rows?
OnBorder(c, yd, xd, name) ==
    \/ c[2] < 4 \/ c[2] >= xd - 4
    \/ /\ name \notin {"MIRI", "miri"}
       /\ (c[1] < 4 \/ c[1] >= yd - 4)

\* C12: reference_pixel_map flags exactly the outer four columns on each
\* side for every instrument and, for every instrument but MIRI, the outer
\* four rows at top and bottom; every other pixel is 0 and the map has the
\* requested shape.
C12_ReferencePixelMap ==
    pc = "ref_returned" =>
        /\ DOMAIN ref_map = Coords(dimensions[1], dimensions[2])
        /\ \A c \in DOMAIN ref_map :
              ref_map[c] = IF OnBorder(c, dimensions[1], dimensions[2], instrument_name)
                           THEN 1 ELSE 0

\* A 10 x 10 MIRI map: the top row is flagged only in its outer columns.
C12_Witness ==
    /\ pc = "ref_returned"
    /\ instrument_name = "MIRI"
    /\ dimensions = <<10, 10>>
    /\ ref_map[<<0, 3>>] = 1 /\ ref_map[<<0, 4>>] = 0
    /\ ref_map[<<0, 5>>] = 0 /\ ref_map[<<0, 6>>] = 1

---------------------------------------------------------------------------
(* read_files (lines 884-966) and extract_10th_group (lines 566-589).      *)
(* A numpy array is a record of its shape and of its values in row-major   *)
(* order.  A file is read when the loop opens it.                          *)

\* Most files handed to read_files.
MaxFiles == 2

\* Lines 580-586: a ramp needs 10 groups, and the group at index 9 is kept.
MinGroups == 10
GroupIndex == 9

\* A local name that no statement has bound yet.
UnboundLocal == "unbound local"

\* A header without the S_RAMP keyword (header['S_RAMP'] raises KeyError).
NoKey == "no such key"

\* str.upper() on the header values tried.
Upper(name) ==
    CASE name = "nircam" -> "NIRCAM"
      [] name = "nrca1" -> "NRCA1"
      [] name = "full" -> "FULL"
      [] name = "reference_pixel" -> "REFERENCE_PIXEL"
      [] name = "bogus" -> "BOGUS"
      [] OTHER -> name

\* np.expand_dims(array, axis=0)
expand_dims(array) == [shape |-> <<1>> \o array.shape, flat |-> array.flat]

\* np.concatenate((a, b), axis=0): the arrays must agree on every other axis.
ConcatenateOk(a, b) ==
    Len(a.shape) = Len(b.shape) /\ Tail(a.shape) = Tail(b.shape)

Concatenate(a, b) ==
    [shape |-> <<a.shape[1] + b.shape[1]>> \o Tail(a.shape),
     flat |-> a.flat \o b.flat]

\* Lines 579-589.  The result is [status, group10]; with 2-D data neither
\* branch binds group10 and the return statement fails.
extract_10th_group(sci) ==
    LET dims == sci.shape
        n == Len(dims)
        ps == dims[n - 1] * dims[n]
    IN IF n = 4 THEN
           IF dims[2] < MinGroups
           THEN [status |-> "ValueError: fewer than 10 groups", group10 |-> UnboundLocal]
           ELSE [status |-> "ok",
                 group10 |->
                    [shape |-> <<dims[1], dims[3], dims[4]>>,
                     flat |-> [k \in 1..(dims[1] * ps) |->
                                 sci.flat[(((k - 1) \div ps) * dims[2] + GroupIndex) * ps
                                          + ((k - 1) % ps) + 1]]]]
       ELSE IF n = 3 THEN
           IF dims[1] < MinGroups
           THEN [status |-> "ValueError: fewer than 10 groups", group10 |-> UnboundLocal]
           ELSE [status |-> "ok",
                 group10 |->
                    expand_dims([shape |-> <<dims[2], dims[3]>>,
                                 flat |-> SubSeq(sci.flat, GroupIndex * ps + 1,
                                                 (GroupIndex + 1) * ps)])]
       ELSE [status |-> "UnboundLocalError: group10", group10 |-> UnboundLocal]

\* Lines 916-919: header['S_RAMP'], or 'NOT RUN' on KeyError.
Rampfit(file) == IF file.S_RAMP = NoKey THEN "NOT RUN" ELSE file.S_RAMP

\* Line 923 with == 'sigma_rate' for != 'zero_signal'.
SlopeSearchSigmaOnly(dst) == dst = "sigma_rate"

\* Line 923: dead_search_type != 'zero_signal'
SlopeSearch(dst) == dst # "zero_signal"

\* Lines 923-946: the data taken from one file, as [status, exposure].
ReadExposure(file, dst) ==
    IF SlopeSearch(dst) THEN
        IF Rampfit(file) # "COMPLETE"
        THEN [status |-> "ValueError: ramp-fitting step not run", exposure |-> UnboundLocal]
        ELSE [status |-> "ok",
              exposure |-> IF Len(file.SCI.shape) = 2
                           THEN expand_dims(file.SCI) ELSE file.SCI]
    ELSE
        IF Rampfit(file) = "COMPLETE"
        THEN [status |-> "ValueError: ramp-fitting step run", exposure |-> UnboundLocal]
        ELSE LET g == extract_10th_group(file.SCI)
             IN [status |-> g.status, exposure |-> g.group10]

\* Lines 956-962: the consistency checks, in their order.
Consistency(file, st) ==
    IF Upper(file.INSTRUME) # st.comparison_instrument
    THEN "ValueError: Inconsistent instruments"
    ELSE IF Upper(file.DETECTOR) # st.comparison_detector
    THEN "ValueError: Inconsistent detectors"
    ELSE IF Upper(file.SUBARRAY) # st.comparison_aperture
    THEN "ValueError: Inconsistent apertures"
    ELSE "ok"

\* Lines 950-954: the state after the first file (i == 0), else unchanged.
FirstFile(file, first, exp, st) ==
    IF first
    THEN [comparison_instrument |-> Upper(file.INSTRUME),
          comparison_detector |-> Upper(file.DETECTOR),
          comparison_aperture |-> Upper(file.SUBARRAY),
          integrations |-> exp]
    ELSE st

\* Lines 909-965: one iteration of the loop from the state st, as the
\* status, the new state and the exposure.
ReadBody(file, first, st, dst) ==
    LET r == ReadExposure(file, dst)
    IN IF r.status # "ok"
       THEN [status |-> r.status, st |-> st, exposure |-> r.exposure]
       ELSE LET st1 == FirstFile(file, first, r.exposure, st)
            IN IF Consistency(file, st1) # "ok"
               THEN [status |-> Consistency(file, st1), st |-> st1,
                     exposure |-> r.exposure]
               ELSE IF ~ConcatenateOk(st1.integrations, r.exposure)
               THEN [status |-> "ValueError: concatenate dimensions", st |-> st1,
                     exposure |-> r.exposure]
               ELSE [status |-> "ok",
                     st |-> [st1 EXCEPT !.integrations =
                                Concatenate(st1.integrations, r.exposure)],
                     exposure |-> r.exposure]

\* The comparison values and the stack before the first iteration.
NothingRead ==
    [comparison_instrument |-> UnboundLocal, comparison_detector |-> UnboundLocal,
     comparison_aperture |-> UnboundLocal, integrations |-> UnboundLocal]

RECURSIVE ReadLoop(_, _, _, _)
ReadLoop(files, i, st, dst) ==
    IF i > Len(files) THEN [status |-> "ok", st |-> st]
    ELSE LET r == ReadBody(files[i], i = 1, st, dst)
         IN IF r.status # "ok" THEN [status |-> r.status, st |-> r.st]
            ELSE ReadLoop(files, i + 1, r.st, dst)

\* The whole function, for its callers: [status, st].  With no file the
\* return statement reads names that were never bound.
read_files(files, dst) ==
    IF files = <<>>
    THEN [status |-> "UnboundLocalError: integrations", st |-> NothingRead]
    ELSE ReadLoop(files, 1, NothingRead, dst)

\* The names of the files handed to read_files, in order.
FileNames == <<"a.fits", "b.fits", "c.fits">>

\* The value of group g of integration i of the k-th file.
Signal(k, i, g) == 1000 * k + 100 * i + g

\* SCI data of the k-th file: a 2-D image, a 3-D array of n planes, a 4-D
\* array of ni integrations of n groups; every plane is one pixel.
Array2(k) == [shape |-> <<1, 1>>, flat |-> <<Signal(k, 1, 1)>>]
Array3(k, n) == [shape |-> <<n, 1, 1>>, flat |-> [g \in 1..n |-> Signal(k, 1, g)]]
Array4(k, ni, n) ==
    [shape |-> <<ni, n, 1, 1>>,
     flat |-> [j \in 1..(ni * n) |-> Signal(k, ((j - 1) \div n) + 1, ((j - 1) % n) + 1)]]

SciArrays(k) ==
    {Array2(k), Array3(k, MinGroups - 1), Array3(k, MinGroups),
     Array4(k, 2, MinGroups - 1), Array4(k, 2, MinGroups)}

\* INSTRUME, DETECTOR and SUBARRAY of a file.
FileMetadata ==
    {[INSTRUME |-> "NIRCAM", DETECTOR |-> "NRCA1", SUBARRAY |-> "FULL"],
     [INSTRUME |-> "nircam", DETECTOR |-> "nrca1", SUBARRAY |-> "full"],
     [INSTRUME |-> "MIRI", DETECTOR |-> "MIRIMAGE", SUBARRAY |-> "FULL"],
     [INSTRUME |-> "NIRCAM", DETECTOR |-> "NRCA2", SUBARRAY |-> "FULL"],
     [INSTRUME |-> "NIRCAM", DETECTOR |-> "NRCA1", SUBARRAY |-> "SUB64"]}

\* What fits.open can return for the k-th file.
Files(k) ==
    {[FILENAME |-> FileNames[k], INSTRUME |-> m.INSTRUME, DETECTOR |-> m.DETECTOR,
      SUBARRAY |-> m.SUBARRAY, S_RAMP |-> r, SCI |-> a] :
        m \in FileMetadata, r \in {"COMPLETE", "SKIPPED", NoKey}, a \in SciArrays(k)}

\* The values of dead_search_type tried: the three documented and another.
DeadSearchTypes == {"sigma_rate", "absolute_rate", "zero_signal", "bogus"}

otherThanRead == <<combineVars, defaultVars, adjacentVars, openVars, zeroVars,
                   deadVars, refVars, findVars, registryVars>>

InitRead ==
    /\ pc = "read_909"
    /\ idx = 1
    /\ filenames \in {SubSeq(FileNames, 1, n) : n \in 0..MaxFiles}
    /\ dead_search_type \in DeadSearchTypes
    /\ hdu_lists = <<>>
    /\ exposure = UnboundLocal
    /\ integrations = UnboundLocal
    /\ comparison_instrument = UnboundLocal
    /\ comparison_detector = UnboundLocal
    /\ comparison_aperture = UnboundLocal
    /\ error = "none"
    /\ CombineUnused /\ DefaultUnused /\ AdjacentUnused /\ OpenUnused
    /\ ZeroUnused /\ DeadUnused /\ RefUnused /\ FindUnused /\ RegistryUnused

\* The loop state held in the variables.
CurrentRead ==
    [comparison_instrument |-> comparison_instrument,
     comparison_detector |-> comparison_detector,
     comparison_aperture |-> comparison_aperture,
     integrations |-> integrations]

\* One iteration that ends with the given status.
ReadIteration(file, r) ==
    /\ r = ReadBody(file, idx = 1, CurrentRead, dead_search_type)
    /\ hdu_lists' = Append(hdu_lists, file)
    /\ exposure' = r.exposure
    /\ integrations' = r.st.integrations
    /\ comparison_instrument' = r.st.comparison_instrument
    /\ comparison_detector' = r.st.comparison_detector
    /\ comparison_aperture' = r.st.comparison_aperture
    /\ UNCHANGED <<filenames, dead_search_type>>
    /\ UNCHANGED otherThanRead

\* One iteration that raises one of the given errors.
ReadRaises(file, statuses) ==
    LET r == ReadBody(file, idx = 1, CurrentRead, dead_search_type)
    IN /\ r.status \in statuses
       /\ ReadIteration(file, r)
       /\ error' = r.status

\* Lines 909-965: one file is read and stacked.
ReadStack ==
    /\ pc = "read_909"
    /\ idx <= Len(filenames)
    /\ \E file \in Files(idx) :
          LET r == ReadBody(file, idx = 1, CurrentRead, dead_search_type)
          IN /\ r.status = "ok"
             /\ ReadIteration(file, r)
    /\ idx' = idx + 1
    /\ UNCHANGED <<pc, error>>

\* Lines 923-944: the ramp-fitting status does not suit the search.
ReadRaiseRampfit ==
    /\ pc = "read_909"
    /\ idx <= Len(filenames)
    /\ \E file \in Files(idx) :
          ReadRaises(file, {"ValueError: ramp-fitting step not run",
                            "ValueError: ramp-fitting step run"})
    /\ pc' = "read_raised"
    /\ UNCHANGED idx

\* Lines 946, 579-585: extract_10th_group finds fewer than 10 groups.
ReadRaiseGroups ==
    /\ pc = "read_909"
    /\ idx <= Len(filenames)
    /\ \E file \in Files(idx) :
          ReadRaises(file, {"ValueError: fewer than 10 groups"})
    /\ pc' = "read_raised"
    /\ UNCHANGED idx

\* Lines 946, 589: extract_10th_group returns a name it never bound.
ReadRaiseUnbound ==
    /\ pc = "read_909"
    /\ idx <= Len(filenames)
    /\ \E file \in Files(idx) :
          ReadRaises(file, {"UnboundLocalError: group10"})
    /\ pc' = "read_raised"
    /\ UNCHANGED idx

\* Lines 956-962: the file does not agree with the first one.
ReadRaiseInconsistent ==
    /\ pc = "read_909"
    /\ idx <= Len(filenames)
    /\ \E file \in Files(idx) :
          ReadRaises(file, {"ValueError: Inconsistent instruments",
                            "ValueError: Inconsistent detectors",
                            "ValueError: Inconsistent apertures"})
    /\ pc' = "read_raised"
    /\ UNCHANGED idx

\* Line 965: np.concatenate refuses arrays of different dimensions.
ReadRaiseConcatenate ==
    /\ pc = "read_909"
    /\ idx <= Len(filenames)
    /\ \E file \in Files(idx) :
          ReadRaises(file, {"ValueError: concatenate dimensions"})
    /\ pc' = "read_raised"
    /\ UNCHANGED idx

\* Line 966 after at least one file.
ReadReturn ==
    /\ pc = "read_909"
    /\ idx > Len(filenames)
    /\ filenames # <<>>
    /\ pc' = "read_returned"
    /\ UNCHANGED <<idx, readVars>>
    /\ UNCHANGED otherThanRead

\* Line 966 with no file: integrations was never bound.
ReadReturnUnbound ==
    /\ pc = "read_909"
    /\ filenames = <<>>
    /\ pc' = "read_raised"
    /\ error' = "UnboundLocalError: integrations"
    /\ UNCHANGED <<idx, filenames, dead_search_type, hdu_lists, exposure,
                   integrations, comparison_instrument, comparison_detector,
                   comparison_aperture>>
    /\ UNCHANGED otherThanRead

NextRead ==
    \/ ReadStack
    \/ ReadRaiseRampfit
    \/ ReadRaiseGroups
    \/ ReadRaiseUnbound
    \/ ReadRaiseInconsistent
    \/ ReadRaiseConcatenate
    \/ ReadReturn
    \/ ReadReturnUnbound

SpecRead == InitRead /\ [][NextRead]_vars

---------------------------------------------------------------------------
(* Properties of read_files and extract_10th_group *)

\* Does the file break the ramp-fitting precondition of the search?
BreaksPrecondition(file, dst) ==
    \/ dst = "zero_signal" /\ file.S_RAMP = "COMPLETE"
    \/ dst \in {"sigma_rate", "absolute_rate"} /\ file.S_RAMP # "COMPLETE"

\* C16: read_files checks the ramp-fitting precondition on every file: with
\* zero_signal a file whose S_RAMP is COMPLETE, and with sigma_rate or
\* absolute_rate a file whose S_RAMP is not COMPLETE or is missing, ends the
\* call with the ValueError as soon as it is read, and a call that returns a
\* stack has read every file.
C16_RampfitPrecondition ==
    /\ \A k \in 1..Len(hdu_lists) :
          BreaksPrecondition(hdu_lists[k], dead_search_type) =>
              /\ pc = "read_raised"
              /\ k = Len(hdu_lists)
              /\ error = IF dead_search_type = "zero_signal"
                         THEN "ValueError: ramp-fitting step run"
                         ELSE "ValueError: ramp-fitting step not run"
    /\ pc = "read_returned" => Len(hdu_lists) = Len(filenames)

\* The second of two files has no S_RAMP keyword, under absolute_rate.
C16_Witness ==
    /\ pc = "read_raised"
    /\ dead_search_type = "absolute_rate"
    /\ Len(hdu_lists) = 2
    /\ hdu_lists[1].S_RAMP = "COMPLETE"
    /\ hdu_lists[2].S_RAMP = NoKey
    /\ error = "ValueError: ramp-fitting step not run"

\* Has the SCI array too few groups: 4-D with fewer than 10, 3-D with fewer
\* than 10 planes, or no group axis?
TooShallow(sci) ==
    \/ Len(sci.shape) = 4 /\ sci.shape[2] < 10
    \/ Len(sci.shape) = 3 /\ sci.shape[1] < 10
    \/ Len(sci.shape) = 2

\* The group at index 9 of each integration of the k-th file, as a 3-D array.
TenthGroups(k, sci) ==
    LET ni == IF Len(sci.shape) = 4 THEN sci.shape[1] ELSE 1
    IN [shape |-> <<ni, 1, 1>>, flat |-> [i \in 1..ni |-> Signal(k, i, 10)]]

\* C17: under zero_signal, a file without ramp fitting whose data are too
\* shallow ends the call with the ValueError that names the file; from any
\* other such file exactly the group at index 9 of each integration is
\* taken, as a 3-D array.
C17_ExtractTenthGroup ==
    (dead_search_type = "zero_signal" /\ Len(hdu_lists) >= 1) =>
        LET k == Len(hdu_lists)
            file == hdu_lists[k]
        IN file.S_RAMP # "COMPLETE" =>
              IF TooShallow(file.SCI)
              THEN pc = "read_raised" /\ error = "ValueError: fewer than 10 groups"
              ELSE exposure = TenthGroups(k, file.SCI)

RECURSIVE ExposuresInOrder(_)
\* The data taken from the first n files read, one after the other.
ExposuresInOrder(n) ==
    IF n = 0 THEN <<>>
    ELSE ExposuresInOrder(n - 1)
         \o ReadExposure(hdu_lists[n], dead_search_type).exposure.flat

\* C18: the returned stack holds the data of each file exactly once, in the
\* order of the files (planes of one pixel: the values are the planes).
C18_StackEachFileOnce ==
    pc = "read_returned" =>
        /\ integrations.flat = ExposuresInOrder(Len(hdu_lists))
        /\ integrations.shape[1] = Len(ExposuresInOrder(Len(hdu_lists)))

---------------------------------------------------------------------------
(* find_bad_pix (lines 71-313) and the helpers it calls.  An image is a    *)
(* function on Coords(yd, xd); its shape is read off its domain.           *)

\* Python's None where a number is expected (max_dead_norm_signal, line 73)
\* and where a path is expected (output_file, line 74).  A path is the
\* tuple of its components.
NoneNumber == -2000
NonePath == <<"None">>

\* data.shape of a 2-D image
NumRows(data) == Cardinality({c[1] : c \in DOMAIN data})
NumCols(data) == Cardinality({c[2] : c \in DOMAIN data})

\* data[rows, cols] for two slices, given as the index sets they select.
Crop(data, rows, cols) ==
    LET r0 == CHOOSE r \in rows : \A q \in rows : r <= q
        c0 == CHOOSE r \in cols : \A q \in cols : r <= q
    IN [c \in Coords(Cardinality(rows), Cardinality(cols)) |->
           data[<<c[1] + r0, c[2] + c0>>]]

\* Lines 1131-1135: data[4:-4, 4:-4], for MIRI data[:, 4:-4]
science_pixels(data, name) ==
    LET yd == NumRows(data)
        xd == NumCols(data)
    IN IF Lower(name) # "miri"
       THEN Crop(data, SliceIndices(RefPix, -RefPix, yd), SliceIndices(RefPix, -RefPix, xd))
       ELSE Crop(data, 0..(yd - 1), SliceIndices(RefPix, -RefPix, xd))

\* Lines 1136-1140: the same on every plane of a stack.
science_pixels_3d(stack, name) ==
    [g \in 1..Len(stack) |-> science_pixels(stack[g], name)]

\* Lines 858-865: np.zeros((ydim+8, xdim+8)) ; padded[4:-4, 4:-4] = data,
\* for MIRI np.zeros((ydim, xdim+8)) ; padded[:, 4:-4] = data
pad_with_refpix(data, name) ==
    LET yd == NumRows(data)
        xd == NumCols(data)
        rows == SliceIndices(RefPix, -RefPix, yd + 2 * RefPix)
        cols == SliceIndices(RefPix, -RefPix, xd + 2 * RefPix)
    IN IF Lower(name) # "miri"
       THEN [c \in Coords(yd + 2 * RefPix, xd + 2 * RefPix) |->
                IF c[1] \in rows /\ c[2] \in cols
                THEN data[<<c[1] - RefPix, c[2] - RefPix>>] ELSE 0]
       ELSE [c \in Coords(yd, xd + 2 * RefPix) |->
                IF c[2] \in cols
                THEN data[<<c[1], c[2] - RefPix>>] ELSE 0]

\* Lines 837-838: shorted_map[:, 385:387] = 1
miri_bad_columns(dims) ==
    SetColumns(ZeroImage(dims[1], dims[2]), SliceIndices(385, 387, dims[2]))

\* The planes of a 3-D array, as images.
PlanesOf(array) ==
    LET yd == array.shape[2]
        xd == array.shape[3]
    IN [p \in 1..array.shape[1] |->
           [c \in Coords(yd, xd) |->
               array.flat[(p - 1) * yd * xd + c[1] * xd + c[2] + 1]]]

\* The 2-D array of an image.
ArrayOf(img, yd, xd) ==
    [shape |-> <<yd, xd>>, flat |-> [k \in 1..(yd * xd) |-> img[RowMajor(yd, xd)[k]]]]

\* Lines 818-820 on a stack whose planes are all the same, as the stack of
\* one input file is: nothing is clipped, the mean is the plane and the
\* deviation is 0 (NaN where the plane is NaN).
mean_stdev_images(planes) ==
    [mean_image |-> planes[1],
     stdev_image |-> [c \in DOMAIN planes[1] |-> IF planes[1][c] = NaN THEN NaN ELSE 0]]

\* mean_img / smoothed_image (line 198), in hundredths.
Divide(a, b) ==
    [c \in DOMAIN a |-> IF a[c] = NaN \/ b[c] = NaN THEN NaN ELSE (a[c] * 100) \div b[c]]

\* Lines 405-410: the upper-cased list, or ValueError for an unknown name.
flag_type_check(flags) ==
    LET upper == [i \in 1..Len(flags) |-> Upper(flags[i])]
    IN [status |-> IF \A i \in 1..Len(upper) : upper[i] \in DOMAIN dq_defs
                   THEN "ok" ELSE "ValueError: Unrecognized flag type",
        flags |-> upper]

RECURSIVE OpenLoop(_, _, _, _, _, _)
\* Lines 636-645 from the i-th candidate on.
OpenLoop(img, yd, xd, cand, i, maps) ==
    IF i > Len(cand) THEN [status |-> "ok", maps |-> maps]
    ELSE LET x == cand[i][1]
             y == cand[i][2]
             adj == get_adjacent_pixels(x, y, xd, yd)
         IN IF ~IndexInRange(adj, yd, xd)
            THEN [status |-> "IndexError: index out of bounds", maps |-> maps]
            ELSE IF AllAdjacentAbove(img, adj)
            THEN OpenLoop(img, yd, xd, cand, i + 1,
                          [maps EXCEPT !.adj_pix_map = MarkAdjacent(@, x, y, yd, xd),
                                       !.open_pix_map = SetPixel(@, x, y)])
            ELSE OpenLoop(img, yd, xd, cand, i + 1,
                          [maps EXCEPT !.low_qe_map = SetPixel(@, x, y)])

\* find_open_and_low_qe_pixels (lines 592-646) as its callers see it, with
\* max_low_qe and max_adj_open at their defaults.  rate_image >= None is a
\* TypeError.
find_open_and_low_qe_pixels(img, max_dead) ==
    LET yd == NumRows(img)
        xd == NumCols(img)
        zeros == [low_qe_map |-> ZeroImage(yd, xd), open_pix_map |-> ZeroImage(yd, xd),
                  adj_pix_map |-> ZeroImage(yd, xd)]
    IN IF max_dead = NoneNumber
       THEN [status |-> "TypeError: '>=' with NoneType", maps |-> zeros]
       ELSE OpenLoop(img, yd, xd, LowSignalFrom(img, yd, xd, max_dead), 1, zeros)

\* combine_individual_maps (lines 343-367) on 2-D maps, for a dict whose keys
\* and whose do-not-use names are all in dq_defs.
combine_maps(bm, keys, flags) ==
    LET zeros == [p \in DOMAIN bm["DEAD"] |-> 0]
        first == DoNotUseLoop(bm, flags, 1, zeros)
        second == UseLoop(bm, keys, flags, 1, zeros)
    IN SumMaps(AddDoNotUse(first.map), second.map)

\* os.path.split(path)[0] and os.path.join(directory, name)
SplitHead(path) == SubSeq(path, 1, Len(path) - 1)
Join(directory, name) == directory \o <<name>>

\* Most pixels of an input image that differ from the flat background.
MaxFindSpecial == 1

\* The defaults of line 73: dead_sigma_threshold=5., dead_zero_signal_fraction=0.9
DeadSigmaThreshold == 5
DeadZeroSignalFraction == 90

\* Values of the pixels that stand out: no signal, and a low signal inside
\* the candidate range.
FindSpecials == {0, 20}

\* The science images of shape (yd, xd) with at most MaxFindSpecial special pixels.
FindImages(yd, xd) ==
    UNION {{[c \in Coords(yd, xd) |-> IF c \in S THEN f[c] ELSE Background] :
               f \in [S -> FindSpecials]} :
           S \in {T \in SUBSET Coords(yd, xd) : Cardinality(T) <= MaxFindSpecial}}

\* The detectors tried and their full-frame shapes: a square frame with a
\* 1 x 1 and with a 2 x 2 science region, and a MIRI frame, which has
\* reference columns only.
FindFrames ==
    {[INSTRUME |-> "NIRCAM", DETECTOR |-> "NRCA1", shape |-> <<9, 9>>],
     [INSTRUME |-> "NIRCAM", DETECTOR |-> "NRCA1", shape |-> <<10, 10>>],
     [INSTRUME |-> "MIRI", DETECTOR |-> "MIRIMAGE", shape |-> <<2, 10>>]}

\* The region of the science pixels of a frame: every row and column but
\* the outer four, on MIRI every row.
FrameRows(frame) ==
    IF frame.INSTRUME = "MIRI" THEN 0..(frame.shape[1] - 1)
    ELSE 4..(frame.shape[1] - 5)
FrameCols(frame) == 4..(frame.shape[2] - 5)

\* The full-frame images of a frame: reference pixels without signal around
\* a science image.
FullFrames(frame) ==
    {[c \in Coords(frame.shape[1], frame.shape[2]) |->
         IF c[1] \in FrameRows(frame) /\ c[2] \in FrameCols(frame)
         THEN sci[<<c[1] - (IF frame.INSTRUME = "MIRI" THEN 0 ELSE 4), c[2] - 4>>]
         ELSE 0] :
        sci \in FindImages(Cardinality(FrameRows(frame)), Cardinality(FrameCols(frame)))}

\* A ramp of MinGroups groups that all hold the same image.
RampOf(array) ==
    [shape |-> <<MinGroups>> \o array.shape,
     flat |-> [k \in 1..(MinGroups * Len(array.flat)) |->
                  array.flat[((k - 1) % Len(array.flat)) + 1]]]

\* The input files: a slope image (ramp fitting COMPLETE) or a ramp (no
\* S_RAMP keyword) of one of the full-frame images.
FindFiles ==
    UNION {UNION {{[FILENAME |-> "a.fits", INSTRUME |-> frame.INSTRUME,
                    DETECTOR |-> frame.DETECTOR, SUBARRAY |-> "FULL",
                    S_RAMP |-> "COMPLETE",
                    SCI |-> ArrayOf(full, frame.shape[1], frame.shape[2])],
                   [FILENAME |-> "a.fits", INSTRUME |-> frame.INSTRUME,
                    DETECTOR |-> frame.DETECTOR, SUBARRAY |-> "FULL",
                    S_RAMP |-> NoKey,
                    SCI |-> RampOf(ArrayOf(full, frame.shape[1], frame.shape[2]))]} :
                  full \in FullFrames(frame)} :
           frame \in FindFrames}

\* The values of normalization_method tried: the three documented (one not
\* in lower case) and another.
FindNormalizations == {"Smoothed", "mean", "none", "median"}

\* The names tried in do_not_use.
FindFlagNames == {"reference_pixel", "bogus"}

\* A do_not_use list that names one flag many times over: REFERENCE_PIXEL as
\* often as its value goes into the value of DEAD (1024 / 128).
RepeatedReferencePixel ==
    [i \in 1..(dq_defs["DEAD"] \div dq_defs["REFERENCE_PIXEL"]) |-> "reference_pixel"]

\* The do_not_use lists tried.
FindDoNotUseLists ==
    SeqUpTo(FindFlagNames, MaxDnuLen) \cup {RepeatedReferencePixel}

\* The path given as output_file.
OutputPath == <<"out", "mask.fits">>

\* What smooth (astropy's convolve) and image_stats (astropy's sigma_clip)
\* can return as the level of a flat image: 1.0 or the background.
SmoothLevels == {100, Background}

\* What image_stats(normalized) (astropy's sigma_clip) returns as
\* <<mean, deviation>> of a normalized flat field: 1.0 and 0.1.
NormStats == {<<100, 10>>}

\* The name of the dead map file (line 234).
DeadFileName(dst) ==
    CASE dst = "zero_signal" -> "dead_map_zero_signal.fits"
      [] dst = "sigma_rate" -> "dead_map_sigma_rate.fits"
      [] dst = "absolute_rate" -> "dead_map_absolute_rate.fits"

\* '{}_{}_mask.fits'.format(instrument, detector)   (line 305)
MaskFileName(instr, det) ==
    CASE instr = "NIRCAM" /\ det = "NRCA1" -> "NIRCAM_NRCA1_mask.fits"
      [] instr = "MIRI" /\ det = "MIRIMAGE" -> "MIRI_MIRIMAGE_mask.fits"

findArgs == <<input_files, dead_search, low_qe_and_open_search, dead_search_type,
              normalization_method>>

findRead == <<input_exposures, instrument, detector, xdim, ydim>>

findNorm == <<smoothed_image, normalized>>

findQE == <<lowqe_map, open_map, adjacent_to_open_map>>

findStatic == <<miri_bad_col_map, reference_pix>>

\* The variables find_bad_pix does not use.
otherThanFind ==
    <<idx, bad_maps, bad_maps_keys, do_not_use_flags, do_not_use_map, use_map,
      default_value, adjacentVars, rate_image, low_sig, low_qe_map, open_pix_map,
      adj_pix_map, zeroVars, deadVars, refVars, filenames, hdu_lists, exposure,
      integrations, comparison_instrument, comparison_detector,
      comparison_aperture, registryVars>>

InitFind ==
    /\ pc = "find_173"
    /\ input_files = <<"a.fits">>
    /\ dead_search \in BOOLEAN
    /\ low_qe_and_open_search \in BOOLEAN
    /\ dead_search_type \in DeadSearchTypes
    /\ normalization_method \in FindNormalizations
    /\ max_dead_norm_signal \in {NoneNumber, max_dead_signal}
    /\ do_not_use \in FindDoNotUseLists
    /\ output_file \in {NonePath, OutputPath}
    /\ input_exposures = Unused /\ instrument = Unused /\ detector = Unused
    /\ xdim = Unused /\ ydim = Unused
    /\ mean_img = Unused /\ stdev_img = Unused
    /\ smoothed_image = Unused /\ normalized = Unused
    /\ norm_mean = Unused /\ norm_dev = Unused
    /\ dead_map = Unused /\ lowqe_map = Unused /\ open_map = Unused
    /\ adjacent_to_open_map = Unused /\ miri_bad_col_map = Unused
    /\ reference_pix = Unused /\ final_map = Unused
    /\ files_written = {}
    /\ error = "none"
    /\ idx = 0
    /\ bad_maps = Unused /\ bad_maps_keys = Unused /\ do_not_use_flags = Unused
    /\ do_not_use_map = Unused /\ use_map = Unused /\ default_value = Unused
    /\ rate_image = Unused /\ low_sig = Unused /\ low_qe_map = Unused
    /\ open_pix_map = Unused /\ adj_pix_map = Unused
    /\ filenames = Unused /\ hdu_lists = Unused /\ exposure = Unused
    /\ integrations = Unused /\ comparison_instrument = Unused
    /\ comparison_detector = Unused /\ comparison_aperture = Unused
    /\ AdjacentUnused /\ ZeroUnused /\ DeadUnused /\ RefUnused
    /\ RegistryUnused

\* The call ends with the exception e.
FindRaise(e) ==
    /\ pc' = "find_raised"
    /\ error' = e
    /\ UNCHANGED <<findArgs, findRead, mean_img, stdev_img, findNorm,
                   norm_mean, norm_dev, max_dead_norm_signal, dead_map,
                   findQE, findStatic, do_not_use, final_map, output_file,
                   files_written>>
    /\ UNCHANGED otherThanFind

\* Lines 173-177: crds_input_checks passes on the default author,
\* description, pedigree and useafter; read_files fails.
FindReadFilesRaise ==
    /\ pc = "find_173"
    /\ \E file \in FindFiles :
          LET r == read_files(<<file>>, dead_search_type)
          IN r.status # "ok" /\ FindRaise(r.status)

\* Lines 173-177: read_files returns the stack.
FindReadFiles ==
    /\ pc = "find_173"
    /\ \E file \in FindFiles :
          LET r == read_files(<<file>>, dead_search_type)
              shape == r.st.integrations.shape
          IN /\ r.status = "ok"
             /\ input_exposures' = r.st.integrations
             /\ instrument' = r.st.comparison_instrument
             /\ detector' = r.st.comparison_detector
             /\ ydim' = shape[Len(shape) - 1]
             /\ xdim' = shape[Len(shape)]
    /\ pc' = "find_180"
    /\ UNCHANGED <<findArgs, mean_img, stdev_img, findNorm, norm_mean,
                   norm_dev, max_dead_norm_signal, dead_map, findQE,
                   findStatic, do_not_use, final_map, output_file,
                   files_written, error>>
    /\ UNCHANGED otherThanFind

\* Lines 180-184: the mean and stdev images, without the reference pixels.
FindMeanStdev ==
    /\ pc = "find_180"
    /\ LET m == mean_stdev_images(PlanesOf(input_exposures))
       IN /\ mean_img' = science_pixels(m.mean_image, instrument)
          /\ stdev_img' = science_pixels(m.stdev_image, instrument)
    /\ pc' = "find_187"
    /\ UNCHANGED <<findArgs, findRead, findNorm, norm_mean, norm_dev,
                   max_dead_norm_signal, dead_map, findQE, findStatic,
                   do_not_use, final_map, output_file, files_written, error>>
    /\ UNCHANGED otherThanFind

\* Lines 187-188, 198: normalization by the smoothed mean image.
FindNormalizeSmoothed ==
    /\ pc = "find_187"
    /\ Lower(normalization_method) = "smoothed"
    /\ \E level \in SmoothLevels :
          smoothed_image' = [c \in DOMAIN mean_img |-> level]
    /\ normalized' = Divide(mean_img, smoothed_image')
    /\ pc' = "find_201"
    /\ UNCHANGED <<findArgs, findRead, mean_img, stdev_img, norm_mean,
                   norm_dev, max_dead_norm_signal, dead_map, findQE,
                   findStatic, do_not_use, final_map, output_file,
                   files_written, error>>
    /\ UNCHANGED otherThanFind

\* Lines 189-191, 198: normalization by the mean of the mean image.
FindNormalizeMean ==
    /\ pc = "find_187"
    /\ Lower(normalization_method) = "mean"
    /\ \E img_mean \in SmoothLevels :
          smoothed_image' = [c \in DOMAIN mean_img |-> 0 + img_mean]
    /\ normalized' = Divide(mean_img, smoothed_image')
    /\ pc' = "find_201"
    /\ UNCHANGED <<findArgs, findRead, mean_img, stdev_img, norm_mean,
                   norm_dev, max_dead_norm_signal, dead_map, findQE,
                   findStatic, do_not_use, final_map, output_file,
                   files_written, error>>
    /\ UNCHANGED otherThanFind

\* Lines 192-193, 198: no normalization, np.ones.
FindNormalizeNone ==
    /\ pc = "find_187"
    /\ Lower(normalization_method) = "none"
    /\ smoothed_image' = [c \in DOMAIN mean_img |-> 100]
    /\ normalized' = Divide(mean_img, smoothed_image')
    /\ pc' = "find_201"
    /\ UNCHANGED <<findArgs, findRead, mean_img, stdev_img, norm_mean,
                   norm_dev, max_dead_norm_signal, dead_map, findQE,
                   findStatic, do_not_use, final_map, output_file,
                   files_written, error>>
    /\ UNCHANGED otherThanFind

\* Lines 194-195: any other normalization_method.
FindNormalizeRaise ==
    /\ pc = "find_187"
    /\ Lower(normalization_method) \notin {"smoothed", "mean", "none"}
    /\ FindRaise("ValueError: Unknown smoothing option")

\* Line 201: os.path.split(None) is a TypeError.
FindSaveMeanRaise ==
    /\ pc = "find_201"
    /\ output_file = NonePath
    /\ FindRaise("TypeError: os.path.split(None)")

\* Lines 201-216: the mean file is written; image_stats(normalized).
FindSaveMean ==
    /\ pc = "find_201"
    /\ output_file # NonePath
    /\ files_written' = files_written
          \cup {Join(SplitHead(output_file), "mean_smoothed_normalized_images.fits")}
    /\ \E stats \in NormStats :
          norm_mean' = stats[1] /\ norm_dev' = stats[2]
    /\ pc' = "find_219"
    /\ UNCHANGED <<findArgs, findRead, mean_img, stdev_img, findNorm,
                   max_dead_norm_signal, dead_map, findQE, findStatic,
                   do_not_use, final_map, output_file, error>>
    /\ UNCHANGED otherThanFind

\* Lines 219-231: dead_search with a dead_search_type that no branch
\* handles; dead_map is not bound when line 231 reads it.
FindDeadSearchRaise ==
    /\ pc = "find_219"
    /\ dead_search
    /\ dead_search_type \notin {"zero_signal", "sigma_rate", "absolute_rate"}
    /\ FindRaise("UnboundLocalError: dead_map")

\* Lines 219-237: the dead pixel search; the dead map file is written.
FindDeadSearch ==
    /\ pc = "find_219"
    /\ dead_search
    /\ dead_search_type \in {"zero_signal", "sigma_rate", "absolute_rate"}
    /\ max_dead_norm_signal' =
          IF dead_search_type = "absolute_rate" /\ max_dead_norm_signal = NoneNumber
          THEN get_max_dead_norm_signal_default(instrument, detector,
                                                Lower(normalization_method))
          ELSE max_dead_norm_signal
    /\ dead_map' = pad_with_refpix(
          CASE dead_search_type = "zero_signal" ->
                 dead_pixels_zero_signal(
                     science_pixels_3d(PlanesOf(input_exposures), instrument),
                     DeadZeroSignalFraction)
            [] dead_search_type = "sigma_rate" ->
                 dead_pixels_sigma_rate(normalized, norm_mean, norm_dev,
                                        DeadSigmaThreshold)
            [] dead_search_type = "absolute_rate" ->
                 dead_pixels_absolute_rate(normalized, max_dead_norm_signal'),
          instrument)
    /\ files_written' = files_written
          \cup {Join(SplitHead(output_file), DeadFileName(dead_search_type))}
    /\ pc' = "find_244"
    /\ UNCHANGED <<findArgs, findRead, mean_img, stdev_img, findNorm,
                   norm_mean, norm_dev, findQE, findStatic, do_not_use,
                   final_map, output_file, error>>
    /\ UNCHANGED otherThanFind

\* Lines 239-240: no dead pixel search.
FindNoDeadSearch ==
    /\ pc = "find_219"
    /\ ~dead_search
    /\ dead_map' = ZeroImage(ydim, xdim)
    /\ pc' = "find_244"
    /\ UNCHANGED <<findArgs, findRead, mean_img, stdev_img, findNorm,
                   norm_mean, norm_dev, max_dead_norm_signal, findQE,
                   findStatic, do_not_use, final_map, output_file,
                   files_written, error>>
    /\ UNCHANGED otherThanFind

\* Lines 244-248, 634: max_dead_norm_signal is still None.
FindLowQETypeError ==
    /\ pc = "find_244"
    /\ low_qe_and_open_search
    /\ max_dead_norm_signal = NoneNumber
    /\ FindRaise(find_open_and_low_qe_pixels(normalized, max_dead_norm_signal).status)

\* Lines 244-248, 638: a neighbour index is outside the image.
FindLowQEIndexError ==
    /\ pc = "find_244"
    /\ low_qe_and_open_search
    /\ max_dead_norm_signal # NoneNumber
    /\ find_open_and_low_qe_pixels(normalized, max_dead_norm_signal).status # "ok"
    /\ FindRaise(find_open_and_low_qe_pixels(normalized, max_dead_norm_signal).status)

\* Lines 244-251: the low QE and open pixel search.
FindLowQE ==
    /\ pc = "find_244"
    /\ low_qe_and_open_search
    /\ LET r == find_open_and_low_qe_pixels(normalized, max_dead_norm_signal)
       IN /\ r.status = "ok"
          /\ lowqe_map' = pad_with_refpix(r.maps.low_qe_map, instrument)
          /\ open_map' = pad_with_refpix(r.maps.open_pix_map, instrument)
          /\ adjacent_to_open_map' = pad_with_refpix(r.maps.adj_pix_map, instrument)
    /\ pc' = "find_260"
    /\ UNCHANGED <<findArgs, findRead, mean_img, stdev_img, findNorm,
                   norm_mean, norm_dev, max_dead_norm_signal, dead_map,
                   findStatic, do_not_use, final_map, output_file,
                   files_written, error>>
    /\ UNCHANGED otherThanFind

\* Lines 252-255: no low QE and open pixel search.
FindNoLowQE ==
    /\ pc = "find_244"
    /\ ~low_qe_and_open_search
    /\ lowqe_map' = ZeroImage(ydim, xdim)
    /\ open_map' = ZeroImage(ydim, xdim)
    /\ adjacent_to_open_map' = ZeroImage(ydim, xdim)
    /\ pc' = "find_260"
    /\ UNCHANGED <<findArgs, findRead, mean_img, stdev_img, findNorm,
                   norm_mean, norm_dev, max_dead_norm_signal, dead_map,
                   findStatic, do_not_use, final_map, output_file,
                   files_written, error>>
    /\ UNCHANGED otherThanFind

\* Lines 260-284: the low QE file, MIRI's bad columns, the reference pixel
\* map and its file.
FindStaticMaps ==
    /\ pc = "find_260"
    /\ miri_bad_col_map' =
          IF instrument = "MIRI"
          THEN miri_bad_columns(<<NumRows(dead_map), NumCols(dead_map)>>)
          ELSE ZeroImage(ydim, xdim)
    /\ reference_pix' =
          reference_pixel_map(<<NumRows(dead_map), NumCols(dead_map)>>, instrument)
    /\ files_written' = files_written
          \cup {Join(SplitHead(output_file), "low_qe_open_adjopen_maps.fits"),
                Join(SplitHead(output_file), "refpix_map.fits")}
    /\ pc' = "find_291"
    /\ UNCHANGED <<findArgs, findRead, mean_img, stdev_img, findNorm,
                   norm_mean, norm_dev, max_dead_norm_signal, dead_map,
                   findQE, do_not_use, final_map, output_file, error>>
    /\ UNCHANGED otherThanFind

\* Line 298: flag_type_check meets a name that is no flag.
FindFlagCheckRaise ==
    /\ pc = "find_291"
    /\ flag_type_check(do_not_use).status # "ok"
    /\ FindRaise(flag_type_check(do_not_use).status)

\* Lines 291-301: the maps are combined.
FindCombine ==
    /\ pc = "find_291"
    /\ flag_type_check(do_not_use).status = "ok"
    /\ do_not_use' = flag_type_check(do_not_use).flags
    /\ final_map' = combine_maps(
          [DEAD |-> dead_map, LOW_QE |-> lowqe_map, OPEN |-> open_map,
           ADJ_OPEN |-> adjacent_to_open_map, REFERENCE_PIXEL |-> reference_pix,
           UNRELIABLE_SLOPE |-> miri_bad_col_map],
          <<"DEAD", "LOW_QE", "OPEN", "ADJ_OPEN", "REFERENCE_PIXEL", "UNRELIABLE_SLOPE">>,
          do_not_use')
    /\ pc' = "find_304"
    /\ UNCHANGED <<findArgs, findRead, mean_img, stdev_img, findNorm,
                   norm_mean, norm_dev, max_dead_norm_signal, dead_map,
                   findQE, findStatic, output_file, files_written, error>>
    /\ UNCHANGED otherThanFind

\* Lines 304-313: the default output file, save_final_map and
\* pipeline_check (both outside this module's arithmetic).
FindSave ==
    /\ pc = "find_304"
    /\ output_file' = IF output_file = NonePath
                      THEN Join(<<"cwd">>, MaskFileName(instrument, detector))
                      ELSE output_file
    /\ files_written' = files_written \cup {output_file'}
    /\ pc' = "find_returned"
    /\ UNCHANGED <<findArgs, findRead, mean_img, stdev_img, findNorm,
                   norm_mean, norm_dev, max_dead_norm_signal, dead_map,
                   findQE, findStatic, do_not_use, final_map, error>>
    /\ UNCHANGED otherThanFind

NextFind ==
    \/ FindReadFilesRaise
    \/ FindReadFiles
    \/ FindMeanStdev
    \/ FindNormalizeSmoothed
    \/ FindNormalizeMean
    \/ FindNormalizeNone
    \/ FindNormalizeRaise
    \/ FindSaveMeanRaise
    \/ FindSaveMean
    \/ FindDeadSearchRaise
    \/ FindDeadSearch
    \/ FindNoDeadSearch
    \/ FindLowQETypeError
    \/ FindLowQEIndexError
    \/ FindLowQE
    \/ FindNoLowQE
    \/ FindStaticMaps
    \/ FindFlagCheckRaise
    \/ FindCombine
    \/ FindSave

SpecFind == InitFind /\ [][NextFind]_vars

---------------------------------------------------------------------------
(* Properties of find_bad_pix *)

\* Has the value v one of the bits DEAD, LOW_QE, OPEN, ADJ_OPEN?
HasScienceFlag(v) ==
    \/ HasBit(v, 1024) \/ HasBit(v, 8192)
    \/ HasBit(v, 67108864) \/ HasBit(v, 134217728)

\* C13: stripping and padding undo each other for every instrument and full
\* frame (padding the stripped frame gives the frame's shape, stripping a
\* padded image gives the image), and in the final mask every pixel that
\* reference_pixel_map flags carries REFERENCE_PIXEL and none of DEAD,
\* LOW_QE, OPEN, ADJ_OPEN, while no science pixel carries REFERENCE_PIXEL.
C13_StripPadRoundTrip ==
    /\ pc = "find_187" =>
          LET full == PlanesOf(input_exposures)[1]
          IN /\ DOMAIN pad_with_refpix(science_pixels(full, instrument), instrument)
                   = DOMAIN full
             /\ science_pixels(pad_with_refpix(mean_img, instrument), instrument)
                   = mean_img
    /\ pc \in {"find_304", "find_returned"} =>
          \A c \in DOMAIN final_map :
              /\ reference_pix[c] = 1 =>
                    HasBit(final_map[c], 128) /\ ~HasScienceFlag(final_map[c])
              /\ ~OnBorder(c, ydim, xdim, instrument) => ~HasBit(final_map[c], 128)

\* Is the dead search strategy, when used, or the normalization unknown?
UnknownOption ==
    \/ dead_search /\ dead_search_type \notin {"zero_signal", "sigma_rate", "absolute_rate"}
    \/ normalization_method \notin {"Smoothed", "mean", "none"}

\* Has read_files accepted the input file, and is there an output path?
InputAccepted ==
    /\ input_exposures # Unused
    /\ output_file # NonePath

\* C14: with dead_search enabled and an unknown dead_search_type, or with an
\* unknown normalization_method, the call fails with the ValueError that
\* names the unknown option, with no other failure, and returns no mask
\* (the input file and the output path being acceptable).
C14_UnknownOptionRejected ==
    UnknownOption =>
        /\ pc \notin {"find_304", "find_returned"}
        /\ (pc = "find_raised" /\ InputAccepted) =>
              error \in {"ValueError: Unknown smoothing option",
                         "ValueError: Unknown dead_search_type"}

\* C15: a configuration error (unknown normalization_method, unrecognized
\* do_not_use entry) is raised before any pixel has been processed and
\* before any diagnostic or output file is written.
C15_ConfigurationErrorFirst ==
    (/\ pc = "find_raised"
     /\ error \in {"ValueError: Unknown smoothing option",
                   "ValueError: Unrecognized flag type"}) =>
        /\ mean_img = Unused
        /\ files_written = {}

\* C19: when the low QE and open pixel search runs, the lower bound it is
\* given, max_dead_norm_signal, is a number: a default has replaced None for
\* every dead_search_type and with dead_search disabled.
C19_LowerBoundDefined ==
    (pc = "find_244" /\ low_qe_and_open_search) =>
        max_dead_norm_signal # NoneNumber

\* C20: with output_file None no step before the save step fails on it.
C20_OutputFileNone ==
    output_file = NonePath =>
        ~(pc = "find_raised" /\ error = "TypeError: os.path.split(None)")

---------------------------------------------------------------------------
(* combine_individual_maps and the shared dict dqflags.pixel (lines        *)
(* 334-339).  Line 334 binds dq_defs to the dict itself, not to a copy, so *)
(* the assignments of lines 338-339 write the dict that create_dqdef       *)
(* (line 380) and flag_type_check (line 405) read.  Every value of the     *)
(* dict is a power of two; the dict is kept as name -> bit number, the     *)
(* value being 2^number, because 2^31 is outside TLC's integers.           *)

\* Calls of combine_individual_maps made one after the other.
MaxCalls == 2

\* log2 of the values assigned in lines 338 (128) and 339 (2147483648).
ReferencePixelBit == 7
Reserved4Bit == 31

\* dqflags.pixel as the jwst package defines it (the names used here): bit 7
\* is RESERVED_4 and bit 31 is REFERENCE_PIXEL, the state that the comment of
\* lines 336-337 calls the pipeline bug.
PipelineRegistry ==
    [DO_NOT_USE       |-> 0,
     RESERVED_4       |-> 7,
     DEAD             |-> 10,
     HOT              |-> 11,
     LOW_QE           |-> 13,
     UNRELIABLE_SLOPE |-> 24,
     OPEN             |-> 26,
     ADJ_OPEN         |-> 27,
     REFERENCE_PIXEL  |-> 31]

\* d[k] = v on a python dict: the key is added when it is missing.
SetItem(d, k, v) ==
    [n \in (DOMAIN d) \cup {k} |-> IF n = k THEN v ELSE d[n]]

\* dqflags.pixel of a release that already has the two values of lines
\* 338-339 (the "next release" of the comment).
FixedRegistry ==
    SetItem(SetItem(PipelineRegistry, "REFERENCE_PIXEL", ReferencePixelBit),
            "RESERVED_4", Reserved4Bit)

\* What dqflags.pixel may hold when combine_individual_maps is first called.
Registries == {PipelineRegistry, FixedRegistry}

\* dq_defs[pix_type]  (lines 350, 354, 361)
Lookup(defs, name) == 2 ^ defs[name]

RECURSIVE DoNotUseLoopIn(_, _, _, _, _)
\* The first loop (lines 345-353) from its i-th iteration on, reading defs.
DoNotUseLoopIn(defs, bm, flags, i, dnu_map) ==
    IF i > Len(flags) THEN [raised |-> FALSE, map |-> dnu_map]
    ELSE IF flags[i] \in DOMAIN defs
         THEN DoNotUseLoopIn(defs, bm, flags, i + 1,
                  IF flags[i] \in DOMAIN bm
                  THEN AddFlagged(dnu_map, bm[flags[i]], Lookup(defs, flags[i]))
                  ELSE dnu_map)
         ELSE [raised |-> TRUE, map |-> dnu_map]

\* do_not_use_map[do_not_use_map != 0] += dq_defs['DO_NOT_USE']  (line 354)
AddDoNotUseIn(defs, dnu_map) ==
    [p \in DOMAIN dnu_map |->
        IF dnu_map[p] # 0 THEN dnu_map[p] + Lookup(defs, "DO_NOT_USE")
        ELSE dnu_map[p]]

RECURSIVE UseLoopIn(_, _, _, _, _, _)
\* The second loop (lines 356-364) from its i-th iteration on, reading defs.
UseLoopIn(defs, bm, keys, flags, i, u_map) ==
    IF i > Len(keys) THEN [raised |-> FALSE, map |-> u_map]
    ELSE IF keys[i] \in DOMAIN defs
         THEN UseLoopIn(defs, bm, keys, flags, i + 1,
                  IF keys[i] \notin Range(flags)
                  THEN AddFlagged(u_map, bm[keys[i]], Lookup(defs, keys[i]))
                  ELSE u_map)
         ELSE [raised |-> TRUE, map |-> u_map]

\* Lines 343-367 with dq_defs bound to defs: "raised" for the ValueError, or
\* the returned map.
CombineIn(defs, bm, keys, flags) ==
    LET first == DoNotUseLoopIn(defs, bm, flags, 1, ZeroMap) IN
    IF first.raised THEN [status |-> "raised", final_map |-> Unused]
    ELSE LET second == UseLoopIn(defs, bm, keys, flags, 1, ZeroMap) IN
         IF second.raised THEN [status |-> "raised", final_map |-> Unused]
         ELSE [status |-> "returned",
               final_map |-> SumMaps(AddDoNotUseIn(defs, first.map), second.map)]

\* Names tried as keys of bad_maps and as do-not-use entries: two that the
\* dict holds, one of them written by line 338, and one it does not hold.
RegistryNames == {"DEAD", "REFERENCE_PIXEL", "BOGUS"}

otherThanRegistry == <<do_not_use_map, use_map, idx, defaultVars, adjacentVars,
                       openVars, zeroVars, deadVars, refVars, readVars,
                       findVars>>

\* The arguments of the calls (as in InitCombine) and the dict as it is when
\* the first call starts.
InitRegistry ==
    /\ pc = "call_334"
    /\ calls = 1
    /\ pixel \in Registries
    /\ bad_maps_keys \in
          {s \in DistinctSeqUpTo(RegistryNames, Cardinality(RegistryNames)) :
              "DEAD" \in Range(s)}
    /\ bad_maps \in [Range(bad_maps_keys) -> [Pixels -> {0, 1}]]
    /\ do_not_use_flags \in SeqUpTo(RegistryNames, MaxDnuLen)
    /\ do_not_use_map = Unused
    /\ use_map = Unused
    /\ final_map = Unused
    /\ idx = 0
    /\ DefaultUnused /\ AdjacentUnused /\ OpenUnused /\ ZeroUnused
    /\ DeadUnused /\ RefUnused /\ ReadUnused /\ FindUnused

\* Lines 334 and 338: dq_defs is the dict itself; write REFERENCE_PIXEL.
CallSetReferencePixel ==
    /\ pc = "call_334"
    /\ pixel' = SetItem(pixel, "REFERENCE_PIXEL", ReferencePixelBit)
    /\ pc' = "call_339"
    /\ UNCHANGED <<calls, bad_maps, bad_maps_keys, do_not_use_flags, final_map>>
    /\ UNCHANGED otherThanRegistry

\* Line 339: write RESERVED_4.
CallSetReserved4 ==
    /\ pc = "call_339"
    /\ pixel' = SetItem(pixel, "RESERVED_4", Reserved4Bit)
    /\ pc' = "call_343"
    /\ UNCHANGED <<calls, bad_maps, bad_maps_keys, do_not_use_flags, final_map>>
    /\ UNCHANGED otherThanRegistry

\* Lines 343-364: one of the loops meets a name the dict does not hold.
CallRaise ==
    /\ pc = "call_343"
    /\ CombineIn(pixel, bad_maps, bad_maps_keys, do_not_use_flags).status
          = "raised"
    /\ pc' = "call_raised"
    /\ UNCHANGED <<pixel, calls, bad_maps, bad_maps_keys, do_not_use_flags,
                   final_map>>
    /\ UNCHANGED otherThanRegistry

\* Lines 343-367: both loops finish and the map is returned.
CallReturn ==
    /\ pc = "call_343"
    /\ LET r == CombineIn(pixel, bad_maps, bad_maps_keys, do_not_use_flags) IN
          /\ r.status = "returned"
          /\ final_map' = r.final_map
    /\ pc' = "call_returned"
    /\ UNCHANGED <<pixel, calls, bad_maps, bad_maps_keys, do_not_use_flags>>
    /\ UNCHANGED otherThanRegistry

\* The caller calls combine_individual_maps again with the same arguments
\* (line 301 of a further find_bad_pix run in the same process).
CallAgain ==
    /\ pc \in {"call_returned", "call_raised"}
    /\ calls < MaxCalls
    /\ calls' = calls + 1
    /\ pc' = "call_334"
    /\ UNCHANGED <<pixel, bad_maps, bad_maps_keys, do_not_use_flags, final_map>>
    /\ UNCHANGED otherThanRegistry

NextRegistry ==
    \/ CallSetReferencePixel
    \/ CallSetReserved4
    \/ CallRaise
    \/ CallReturn
    \/ CallAgain

SpecRegistry == InitRegistry /\ [][NextRegistry]_vars

---------------------------------------------------------------------------
(* Properties of combine_individual_maps and dqflags.pixel *)

\* No step of a call writes an argument of the call.
ArgumentsKept ==
    /\ bad_maps' = bad_maps
    /\ bad_maps_keys' = bad_maps_keys
    /\ do_not_use_flags' = do_not_use_flags

\* A later call ends as the call before it did: it returns the map that
\* final_map still holds, or it raises as the earlier call did.
SameOutcomeAgain ==
    (calls > 1 /\ pc = "call_343") =>
        /\ pc' = "call_returned" => final_map' = final_map
        /\ pc' = "call_raised" => final_map = Unused

\* C21: combine_individual_maps is side-effect free: no step of a call,
\* returning or raising, changes a category map, the do-not-use list or the
\* shared dict dqflags.pixel, and a second call with the same arguments
\* ends as the first did.
C21_SideEffectFree ==
    [][ArgumentsKept /\ pixel' = pixel /\ SameOutcomeAgain]_vars

---------------------------------------------------------------------------
(* The dead search and the low QE search of find_bad_pix side by side *)

\* Are both searches on, the dead search with the absolute threshold?
AbsoluteRateBoth ==
    dead_search /\ dead_search_type = "absolute_rate" /\ low_qe_and_open_search

\* C22: in the final mask of a run with dead_search_type 'absolute_rate' and
\* both searches on no pixel carries DEAD together with LOW_QE or OPEN; with
\* dead_search off no pixel carries DEAD; with low_qe_and_open_search off no
\* pixel carries LOW_QE, OPEN or ADJ_OPEN.
C22_SearchesExclusive ==
    pc \in {"find_304", "find_returned"} =>
        \A c \in DOMAIN final_map :
            /\ AbsoluteRateBoth =>
                  ~(/\ HasBit(final_map[c], dq_defs["DEAD"])
                    /\ \/ HasBit(final_map[c], dq_defs["LOW_QE"])
                       \/ HasBit(final_map[c], dq_defs["OPEN"]))
            /\ ~dead_search => ~HasBit(final_map[c], dq_defs["DEAD"])
            /\ ~low_qe_and_open_search =>
                  /\ ~HasBit(final_map[c], dq_defs["LOW_QE"])
                  /\ ~HasBit(final_map[c], dq_defs["OPEN"])
                  /\ ~HasBit(final_map[c], dq_defs["ADJ_OPEN"])

=============================================================================
